---- MODULE Spec2Model ----
(***************************************************************************)
(* jiuziai-macros: the #[derive(Validate)] procedural macro                *)
(* (validator/src/lib.rs), the run-time helpers it calls                   *)
(* (libs/src/validation/mod.rs) and the lazily compiled pattern registry    *)
(* generated by #[regexes_static] (core/src/regex/tokens.rs).              *)
(*                                                                         *)
(* The derive macro is a compiler: it reads the field declarations of a    *)
(* struct and emits the token stream of `impl Validate`.  The model keeps  *)
(* the three stages apart: Expand (the macro), Compile (rustc on the       *)
(* emitted tokens) and Check / CheckGroup (a call of the emitted code on a *)
(* record), the last one by an interpreter of the emitted statements.      *)
(***************************************************************************)
EXTENDS Integers, Sequences, FiniteSets, TLC

(***************************************************************************)
(* Bounds of the explored inputs.                                          *)
(***************************************************************************)
MaxStrLen == 2
MaxRules == 2
MaxElems == 3
MaxFields == 2
MaxThreads == 3

MaxCompiles == 3

MaxCallers == 2

(***************************************************************************)
(* Values.  A string is a sequence of characters; Option<T> is a sequence  *)
(* of length 0 (None) or 1 (Some).                                         *)
(***************************************************************************)
Chars == {"a", " "}

None == <<>>

Some(x) == <<x>>

StrsUpTo(n) == UNION {[1..k -> Chars] : k \in 0..n}

SeqsUpTo(S, n) == UNION {[1..k -> S] : k \in 0..n}

Contains(s, x) == \E i \in 1..Len(s) : s[i] = x

\* char::is_whitespace on the characters of the explored alphabet
is_whitespace(c) == c = " "

RECURSIVE trim_start(_)
trim_start(s) ==
    IF s # <<>> /\ is_whitespace(Head(s)) THEN trim_start(Tail(s)) ELSE s

RECURSIVE trim_end(_)
trim_end(s) ==
    IF s # <<>> /\ is_whitespace(s[Len(s)])
    THEN trim_end(SubSeq(s, 1, Len(s) - 1))
    ELSE s

\* str::trim
trim(s) == trim_end(trim_start(s))

(***************************************************************************)
(* Run-time helpers (libs/src/validation/mod.rs).  Result<bool, String> is *)
(* [ok |-> TRUE] or [ok |-> FALSE, err |-> message].                       *)
(***************************************************************************)
Ok == [ok |-> TRUE, err |-> ""]

Err(m) == [ok |-> FALSE, err |-> m]

validate_no_space(value, message) ==
    IF \E i \in 1..Len(value) : is_whitespace(value[i]) THEN Err(message) ELSE Ok

validate_not_empty_str(value, message) ==
    IF value = <<>> THEN Err(message) ELSE Ok

validate_not_blank(value, message) ==
    IF trim(value) = <<>> THEN Err(message) ELSE Ok

\* The user function named by func(ident = "..."): caller-supplied code.  The
\* explored one accepts a value that holds at most one character or element.
UserFn(ident, v) == Len(v.s) + Len(v.elems) <= 1

validate_func(v, func, message) ==
    IF UserFn(func, v) THEN Ok ELSE Err(message)

\* regex::Regex::new on the explored pattern literals: "^a+$" compiles,
\* "(" is rejected with a parse error, whose Display is the four lines
\*   regex parse error:
\*       (
\*       ^
\*   error: unclosed group
ValidPattern == "^a+$"

InvalidPattern == "("

RegexNew(pattern) ==
    IF pattern = ValidPattern
    THEN [ok |-> TRUE, err |-> ""]
    ELSE [ok |-> FALSE, err |-> "regex parse error:\n    (\n    ^\nerror: unclosed group"]

\* Regex::is_match for "^a+$"
is_match(pattern, value) ==
    value # <<>> /\ \A i \in 1..Len(value) : value[i] = "a"

\* format!("regex compile error: {}", e): the model keeps the two parts apart
RegexCompileError(e) == "regex compile error: " \o e

validate_regex(value, pattern, message) ==
    LET re == RegexNew(pattern) IN
    IF ~re.ok THEN Err(RegexCompileError(re.err))
    ELSE IF is_match(pattern, value) THEN Ok ELSE Err(message)

\* value.chars().count() against Option<usize> bounds
validate_len_str(value, min, max, message) ==
    IF min # None /\ Len(value) < min[1] THEN Err(message)
    ELSE IF max # None /\ Len(value) > max[1] THEN Err(message)
    ELSE Ok

\* value.into() as i128 against Option<i128> bounds
validate_range_i128(value, min, max, message) ==
    IF min # None /\ value < min[1] THEN Err(message)
    ELSE IF max # None /\ value > max[1] THEN Err(message)
    ELSE Ok

\* The enum of the explored program named by enums(..):
\*   enum Level { A = 1, B = 2 }  with  impl TryFrom<u8> for Level
LevelVariants == {1, 2}

\* E::try_from(primitive).is_ok()
validate_enum_try_from(E, primitive, message) ==
    IF primitive \in LevelVariants THEN Ok ELSE Err(message)

\* usize bounds given as Option<usize>
validate_size_len(len, min, max, message) ==
    IF min # None /\ len < min[1] THEN Err(message)
    ELSE IF max # None /\ len > max[1] THEN Err(message)
    ELSE Ok

(***************************************************************************)
(* Input of the derive macro.  A field declaration is                      *)
(*   [ty, message, group, checks]                                          *)
(* ty      the declared type as the idents of its path, outermost first:   *)
(*         Option<Vec<Inner>> is <<"Option", "Vec", "Inner">>;             *)
(* message the outer  message = "..."  of #[validate(...)], an Option;     *)
(* group   the items of group(...), in order;                              *)
(* checks  the items of check(...), in order, each                         *)
(*         [kind, msg, arg, min, max, list] with msg, arg, min, max        *)
(*         Options (arg is pattern = "..." of regex and ident = "..." of   *)
(*         func and enums) and list the paths of list(..) of enums, each   *)
(*         a variant of Level given by its discriminant.                   *)
(***************************************************************************)
BoundsRule(kind, msg, min, max) ==
    [kind |-> kind, msg |-> msg, arg |-> None, min |-> min, max |-> max, list |-> <<>>]

Rule(kind, msg, arg) ==
    [kind |-> kind, msg |-> msg, arg |-> arg, min |-> None, max |-> None, list |-> <<>>]

SizeRule(msg, min, max) == BoundsRule("size", msg, min, max)

EnumsRule(msg, ident, list) ==
    [kind |-> "enums", msg |-> msg, arg |-> ident, min |-> None, max |-> None, list |-> list]

Field(ty, message, group, checks) ==
    [ty |-> ty, message |-> message, group |-> group, checks |-> checks]

\* str::contains on the idents of the explored program: the test is on the
\* text, so the idents Optional, VecDeque and MyVec hold the word too.
ident_contains(ident, word) ==
    CASE word = "Option" -> ident \in {"Option", "Optional"}
      [] word = "Vec" -> ident \in {"Vec", "VecDeque", "MyVec"}

\* let is_option = ty_s.contains("Option"); let is_vec = ty_s.contains("Vec");
\* ty_s is the printed type, every ident of it included.
is_option(ty) == \E i \in 1..Len(ty) : ident_contains(ty[i], "Option")

is_vec(ty) == \E i \in 1..Len(ty) : ident_contains(ty[i], "Vec")

\* opt_access is  &self.#fname ; val_access is  inner  for an Option field
opt_access == "self.f"

val_access(ty) == IF is_option(ty) THEN "inner" ELSE opt_access

\* The ident of the first generic argument of the last path segment, or the
\* segment's own ident when it has no angle brackets.
inner_ident_opt(ty) == IF Len(ty) > 1 THEN Some(ty[2]) ELSE Some(ty[1])

primitives ==
    {"i8", "i16", "i32", "i64", "i128", "isize", "u8", "u16", "u32", "u64",
     "u128", "usize", "f32", "f64", "bool", "String", "str", "char"}

\* iname.chars().next().map(|c| c.is_uppercase()) on the idents explored
first_is_uppercase(iname) ==
    iname \in {"String", "Option", "Vec", "HashSet", "HashMap", "Inner", "Outer",
               "Optional", "VecDeque", "MyVec", "Level"}

try_recursive(ty) ==
    LET io == inner_ident_opt(ty) IN
    IF io # None
    THEN IF io[1] \in primitives THEN FALSE ELSE first_is_uppercase(io[1])
    ELSE FALSE

\* The shape of the emitted recursion block:
\*   "opt_vec"  if let Some(vec_inner) = &self.f { for item in vec_inner.iter() {..} }
\*   "vec"      for item in (val_access).iter() { if let Err(e) = item.check() {..} }
\*   "opt"      if let Some(inner) = &self.f { if let Err(e) = inner.check() {..} }
\*   "none"     quote!{}
recursion_block(ty) ==
    IF try_recursive(ty)
    THEN IF is_vec(ty)
         THEN IF is_option(ty) THEN "opt_vec" ELSE "vec"
         ELSE IF is_option(ty) THEN "opt" ELSE "none"
    ELSE "none"

(***************************************************************************)
(* The loop  for c in checks.iter()  of derive_validate: what one check    *)
(* item adds to inner_checks_anymode / inner_checks_allmode.  A statement  *)
(* is the helper call it wraps:                                            *)
(*   [helper, operand, arg, min, max, list, msg, rule]                     *)
(* operand is the token used for the value (opt_access, or val_access),    *)
(* msg the literal #msg_lit, rule the position of the check item.  The two *)
(* vectors hold the same calls under different wrappers, chosen when the   *)
(* block is assembled:                                                     *)
(*   any-mode   match call { Ok(_) => { passed = true; }, Err(_) => {} }   *)
(*   all-mode   match call { Ok(_) => {}, Err(e) => return Err(e) }        *)
(***************************************************************************)
Stmt(helper, operand, c, msg, i) ==
    [helper |-> helper, operand |-> operand, arg |-> c.arg, min |-> c.min,
     max |-> c.max, list |-> c.list, msg |-> msg, rule |-> i]

\* format!("missing message for '{kind}' check on field '{}'", stringify!(#fname)):
\* stringify! sees the tokens  # fname  and prints them as  #fname , not as
\* the field's name.
MissingMessage(kind) ==
    "missing message for '" \o kind \o "' check on field '#fname'"

\* The call of each arm; enums(ident = "..") calls validate_enum_try_from and
\* enums(list(..)) emits the comparisons  (val) == &item  themselves.
HelperOf(kind) ==
    CASE kind = "len" -> "validate_len_str"
      [] kind = "range" -> "validate_range_i128"
      [] kind = "size" -> "validate_size_len"
      [] kind = "enums" -> "validate_enum_try_from"
      [] kind = "no_space" -> "validate_no_space"
      [] kind = "not_empty" -> "validate_not_empty_str"
      [] kind = "not_blank" -> "validate_not_blank"
      [] kind = "func" -> "validate_func"
      [] kind = "regex" -> "validate_regex"
      [] kind = "require" -> "is_none"
      [] OTHER -> ""

\* The statement of one check item: the helper of its kind, or for enums
\* without ident = ".." the comparisons with the items of list(..)
CallOf(c) == IF c.kind = "enums" /\ c.arg = None THEN "eq_list" ELSE HelperOf(c.kind)

\* Kinds whose arm computes msg_lit whatever the other arguments are
AlwaysKinds ==
    {"len", "range", "size", "no_space", "not_empty", "not_blank", "enums", "require"}

\* func needs ident = "...", regex needs pattern = "..."; without it the arm
\* emits nothing and the message is not looked at.
ArgKinds == {"func", "regex"}

\* The arm of the check computes msg_lit: in all-mode a check without a
\* message ends the expansion here
NeedsMessage(c) ==
    \/ c.kind \in AlwaysKinds
    \/ c.kind \in ArgKinds /\ c.arg # None

\* The arm pushes a statement: enums pushes one for ident = ".." or for a
\* list(..) that has items, and nothing otherwise
Emits(c) ==
    /\ NeedsMessage(c)
    /\ c.kind = "enums" => (c.arg # None \/ c.list # <<>>)

\* One check item: [err, stmts] with err the compile_error! text (an Option)
\* and stmts the statement pushed (none or one).
GenCheck(c, any_mode, ty, i) ==
    IF ~NeedsMessage(c) THEN [err |-> None, stmts |-> <<>>]
    ELSE IF ~any_mode /\ c.msg = None
    THEN [err |-> Some(MissingMessage(c.kind)), stmts |-> <<>>]
    ELSE IF ~Emits(c) THEN [err |-> None, stmts |-> <<>>]
    ELSE LET msg_lit == IF c.msg = None THEN "" ELSE c.msg[1]
             operand == IF c.kind = "require" THEN opt_access ELSE val_access(ty)
         IN [err |-> None, stmts |-> <<Stmt(CallOf(c), operand, c, msg_lit, i)>>]

\* The checks of one field from item i on; the first compile_error! returns
\* from the macro.
RECURSIVE GenChecks(_, _, _, _)
GenChecks(checks, any_mode, ty, i) ==
    IF i > Len(checks) THEN [err |-> None, stmts |-> <<>>]
    ELSE LET g == GenCheck(checks[i], any_mode, ty, i) IN
         IF g.err # None THEN g
         ELSE LET rest == GenChecks(checks, any_mode, ty, i + 1) IN
              IF rest.err # None THEN rest
              ELSE [err |-> None, stmts |-> g.stmts \o rest.stmts]

(***************************************************************************)
(* The per-field block.  any_block is                                      *)
(*   any-mode  { let mut passed = false; stmts...                          *)
(*               if !passed { return Err(#outer_message.unwrap().to_string()); } } *)
(*   all-mode  { stmts... }                                                *)
(* group_block is the list of allowed group values (empty: run_field is    *)
(* true); check() uses any_block and recursion_block, check_group guards   *)
(* both by run_field.                                                      *)
(***************************************************************************)
any_mode(f) == f.message # None

FieldBlock(f, stmts) ==
    [mode |-> IF any_mode(f) THEN "any" ELSE "all",
     outer_message |-> f.message,
     stmts |-> stmts,
     recursion |-> recursion_block(f.ty),
     elem |-> f.ty[Len(f.ty)],
     group |-> f.group]

\* The whole struct from field k on: [err, blocks].
RECURSIVE ExpandFields(_, _)
ExpandFields(fields, k) ==
    IF k > Len(fields) THEN [err |-> None, blocks |-> <<>>]
    ELSE LET f == fields[k]
             g == GenChecks(f.checks, any_mode(f), f.ty, 1)
         IN IF g.err # None THEN [err |-> g.err, blocks |-> <<>>]
            ELSE LET rest == ExpandFields(fields, k + 1) IN
                 IF rest.err # None THEN rest
                 ELSE [err |-> None, blocks |-> <<FieldBlock(f, g.stmts)>> \o rest.blocks]

\* derive_validate: compile_error!(..) alone, or  impl Validate for #name
\* whose check() holds checks_tokens and check_group() checks_tokens_for_group
\* (the same blocks, each under its group filter).
derive_validate(fields) == ExpandFields(fields, 1)

(***************************************************************************)
(* rustc on the emitted impl.  The macro's output is only tokens: whether  *)
(* a validator exists is decided when they are compiled at the call site.  *)
(***************************************************************************)
\* Structs of the explored program that derive Validate: the nested record
\* type and the deriving struct itself
ValidateTypes == {"Inner", "Outer"}

\* Collections whose iter() yields references to the elements
IterTypes == {"Vec", "VecDeque", "HashSet"}

StringHelpers ==
    {"validate_no_space", "validate_not_empty_str", "validate_not_blank", "validate_regex"}

\* One emitted call.
\*  - operand `inner`: val_access of an Option field; any_block never binds
\*    that name (only the later recursion block does), so it does not resolve;
\*  - validate_len_str / validate_range_i128 / validate_size_len(.., #min,
\*    #max, ..): min and max are Option values of the macro, and quote!
\*    interpolates an Option as its content or as nothing, where the helper
\*    takes an Option;
\*  - (&self.f).as_ref() as &str needs a String field;
\*  - (&self.f).is_none() needs an Option field;
\*  - validate_enum_try_from::<Level, _>((&self.f).clone(), ..) needs
\*    Level: TryFrom<the field type>, which is u8;
\*  - (&self.f) == &Level::A needs a field of the enum's type.
StmtTypechecks(s, ty) ==
    /\ s.operand # "inner"
    /\ s.helper \notin {"validate_len_str", "validate_range_i128", "validate_size_len"}
    /\ s.helper \in StringHelpers => ty = <<"String">>
    /\ s.helper = "is_none" => ty[1] = "Option"
    /\ s.helper = "validate_enum_try_from" => ty = <<"u8">>
    /\ s.helper = "eq_list" => ty = <<"Level">>

\* item.check() / inner.check() on the element type
RecursionTypechecks(rec, ty) ==
    CASE rec = "vec" -> Len(ty) = 2 /\ ty[1] \in IterTypes /\ ty[2] \in ValidateTypes
      [] rec = "opt_vec" ->
            /\ Len(ty) = 3 /\ ty[1] = "Option"
            /\ ty[2] \in IterTypes /\ ty[3] \in ValidateTypes
      [] rec = "opt" -> Len(ty) = 2 /\ ty[1] = "Option" /\ ty[2] \in ValidateTypes
      [] OTHER -> TRUE

\* The any-mode block ends in  return Err(#outer_message.unwrap().to_string()) :
\* outer_message is interpolated as the string literal it holds, so the emitted
\* call is  "..".unwrap()  on a &str, which has no such method.
BlockTypechecks(b, ty) ==
    /\ b.mode # "any"
    /\ \A i \in 1..Len(b.stmts) : StmtTypechecks(b.stmts[i], ty)
    /\ RecursionTypechecks(b.recursion, ty)

Builds(fields, expansion) ==
    /\ expansion.err = None
    /\ \A k \in 1..Len(fields) : BlockTypechecks(expansion.blocks[k], fields[k].ty)

(***************************************************************************)
(* Running the emitted code.  A field value is [none, s, elems, n]: none   *)
(* for an Option that is None, s the characters of a string, elems the     *)
(* records of a nested struct field (one) or collection, n the number of a *)
(* u8 field or the discriminant of a Level field; a record is the sequence *)
(* of its field values.  A run returns [res, ev]: the Result and the list  *)
(* of rule evaluations in the order they happened, each                    *)
(* [path, rule] with path <<field>> or <<field, element, nested field>>.   *)
(***************************************************************************)
Event(path, rule) == [path |-> path, rule |-> rule]

\* A require check that fails on Some and lets None through
require_inverted(v, message) == IF v.none THEN Ok ELSE Err(message)

\* The require check:  if (&self.f).is_none() { return Err(msg) }
require(v, message) == IF v.none THEN Err(message) ELSE Ok

\* One emitted helper call on the field value
Call(s, v) ==
    CASE s.helper = "validate_no_space" -> validate_no_space(v.s, s.msg)
      [] s.helper = "validate_not_empty_str" -> validate_not_empty_str(v.s, s.msg)
      [] s.helper = "validate_not_blank" -> validate_not_blank(v.s, s.msg)
      [] s.helper = "validate_func" -> validate_func(v, s.arg[1], s.msg)
      [] s.helper = "validate_regex" -> validate_regex(v.s, s.arg[1], s.msg)
      [] s.helper = "validate_len_str" -> validate_len_str(v.s, s.min, s.max, s.msg)
      [] s.helper = "validate_range_i128" ->
            validate_range_i128(v.n, s.min, s.max, s.msg)
      [] s.helper = "validate_size_len" ->
            validate_size_len(Len(v.s) + Len(v.elems), s.min, s.max, s.msg)
      [] s.helper = "validate_enum_try_from" ->
            validate_enum_try_from(s.arg[1], v.n, s.msg)
      [] s.helper = "eq_list" ->
            IF \E i \in 1..Len(s.list) : v.n = s.list[i] THEN Ok ELSE Err(s.msg)
      [] s.helper = "is_none" -> require(v, s.msg)

\* The statements of any_block from statement i on: [ret, passed, ev] with ret
\* the message of an early  return Err(..)  (an Option).
RECURSIVE RunStmts(_, _, _, _, _)
RunStmts(stmts, i, mode, v, k) ==
    IF i > Len(stmts) THEN [ret |-> None, passed |-> FALSE, ev |-> <<>>]
    ELSE LET r == Call(stmts[i], v)
             e == <<Event(<<k>>, stmts[i].rule)>>
         IN IF mode = "all" /\ ~r.ok
            THEN [ret |-> Some(r.err), passed |-> FALSE, ev |-> e]
            ELSE LET rest == RunStmts(stmts, i + 1, mode, v, k) IN
                 [ret |-> rest.ret,
                  passed |-> (mode = "any" /\ r.ok) \/ rest.passed,
                  ev |-> e \o rest.ev]

\* serde_json::to_value(&item): a unit enum variant (a path) and a string
\* literal both serialize to the JSON string of their name.
to_value(item) == [json |-> "string", v |-> item.name]

\* A filter under which check() leaves out the fields that carry group tags
run_field_untagged_only(allowed, grp) ==
    IF grp = None THEN allowed = <<>>
    ELSE IF allowed = <<>> THEN TRUE
    ELSE \E i \in 1..Len(allowed) : to_value(allowed[i]) = grp[1]

\* A group filter that compares the requested group with the first tag only
run_field_first_tag(allowed, grp) ==
    IF grp = None THEN TRUE
    ELSE IF allowed = <<>> THEN TRUE
    ELSE to_value(allowed[1]) = grp[1]

\* A filter under which check() runs no field at all
run_field_scoped_only(allowed, grp) ==
    IF grp = None THEN FALSE
    ELSE IF allowed = <<>> THEN TRUE
    ELSE \E i \in 1..Len(allowed) : to_value(allowed[i]) = grp[1]

\* group_block: run_field for the requested group (check() has no filter)
run_field(allowed, grp) ==
    IF grp = None THEN TRUE
    ELSE IF allowed = <<>> THEN TRUE
    ELSE \E i \in 1..Len(allowed) : to_value(allowed[i]) = grp[1]

\* The struct Inner of the explored program (the nested record type):
\*   #[validate(group(name = "B"), check(not_blank(message = "name blank"),
\*                                      no_space(message = "name space")))]
\*   name: String
InnerFields ==
    <<Field(<<"String">>, None, <<[tok |-> "lit", name |-> "B"]>>,
            <<Rule("not_blank", Some("name blank"), None),
              Rule("no_space", Some("name space"), None)>>)>>

Within(path, ev) == [i \in 1..Len(ev) |-> Event(path \o ev[i].path, ev[i].rule)]

RECURSIVE RunFields(_, _, _, _)

\* item.check() is the check() of the element type's impl: the one derived
\* for Inner, or, for an element of the deriving struct's own type, the impl
\* being run (own).
ImplOf(elem, own) == IF elem = "Outer" THEN own ELSE derive_validate(InnerFields).blocks

\* for item in ...iter() { if let Err(e) = item.check() { return Err(e); } }
\* in the block of field k of the impl whose blocks are given
RECURSIVE RunItems(_, _, _, _)
RunItems(blocks, items, j, k) ==
    IF j > Len(items) THEN [res |-> Ok, ev |-> <<>>]
    ELSE LET r == RunFields(ImplOf(blocks[k].elem, blocks), items[j], 1, None)
             e == Within(<<k, j>>, r.ev)
         IN IF ~r.res.ok THEN [res |-> r.res, ev |-> e]
            ELSE LET rest == RunItems(blocks, items, j + 1, k) IN
                 [res |-> rest.res, ev |-> e \o rest.ev]

\* The records the recursion block visits
Visited(rec, v) ==
    CASE rec = "vec" -> v.elems
      [] rec = "opt_vec" -> IF v.none THEN <<>> ELSE v.elems
      [] rec = "opt" -> IF v.none THEN <<>> ELSE v.elems
      [] OTHER -> <<>>

\* any_block then recursion_block of field k of the impl whose blocks are
\* given
RunBlock(blocks, v, k) ==
    LET b == blocks[k]
        st == RunStmts(b.stmts, 1, b.mode, v, k)
    IN
    IF b.mode = "all" /\ st.ret # None THEN [res |-> Err(st.ret[1]), ev |-> st.ev]
    ELSE IF b.mode = "any" /\ ~st.passed
    THEN [res |-> Err(b.outer_message[1]), ev |-> st.ev]
    ELSE LET rc == RunItems(blocks, Visited(b.recursion, v), 1, k) IN
         [res |-> rc.res, ev |-> st.ev \o rc.ev]

\* The body of check() (grp = None) or check_group(grp) from field k on,
\* ending in Ok(true)
RunFields(blocks, rec, k, grp) ==
    IF k > Len(blocks) THEN [res |-> Ok, ev |-> <<>>]
    ELSE IF ~run_field(blocks[k].group, grp) THEN RunFields(blocks, rec, k + 1, grp)
    ELSE LET r == RunBlock(blocks, rec[k], k) IN
         IF ~r.res.ok THEN r
         ELSE LET rest == RunFields(blocks, rec, k + 1, grp) IN
              [res |-> rest.res, ev |-> r.ev \o rest.ev]

\* A step that leaves the default value in the field it has read, as
\* std::mem::take would
field_step_taking(blocks, rec, k, grp) ==
    IF k > Len(blocks) THEN [rec |-> rec, k |-> k, out |-> Some(Ok)]
    ELSE IF ~run_field(blocks[k].group, grp) THEN [rec |-> rec, k |-> k + 1, out |-> None]
    ELSE LET r == RunBlock(blocks, rec[k], k)
             left == [rec EXCEPT ![k].s = <<>>, ![k].elems = <<>>, ![k].n = 0]
         IN IF ~r.res.ok THEN [rec |-> left, k |-> k, out |-> Some(r.res)]
            ELSE [rec |-> left, k |-> k + 1, out |-> None]

\* One step of the body of check() or check_group(grp) on &self: the block of
\* field k under its group filter, or the final Ok(true).  The block reads
\* the field through the shared reference and returns Err or falls through;
\* rec is the record after the step.
field_step(blocks, rec, k, grp) ==
    IF k > Len(blocks) THEN [rec |-> rec, k |-> k, out |-> Some(Ok)]
    ELSE IF ~run_field(blocks[k].group, grp) THEN [rec |-> rec, k |-> k + 1, out |-> None]
    ELSE LET r == RunBlock(blocks, rec[k], k) IN
         IF ~r.res.ok THEN [rec |-> rec, k |-> k, out |-> Some(r.res)]
         ELSE [rec |-> rec, k |-> k + 1, out |-> None]

(***************************************************************************)
(* The explored inputs: the declarations of the struct Outer and the       *)
(* records it is checked on.                                               *)
(***************************************************************************)
Types ==
    {<<"String">>, <<"Option", "String">>, <<"Inner">>, <<"Option", "Inner">>,
     <<"Vec", "Inner">>, <<"HashSet", "Inner">>, <<"Option", "Vec", "Inner">>}

Messages == {None, Some("field bad")}

GroupA == [tok |-> "path", name |-> "A"]

GroupB == [tok |-> "lit", name |-> "B"]

GroupLists == {<<>>, <<GroupA>>, <<GroupA, GroupB>>}

\* The values check_group is called with (serde_json::Value)
GroupValues == {to_value([tok |-> "lit", name |-> n]) : n \in {"A", "B", "C"}}

RuleAlphabet ==
    {Rule("not_blank", Some("blank"), None),
     Rule("not_blank", None, None),
     Rule("no_space", Some("space"), None),
     Rule("regex", Some("no match"), Some(ValidPattern)),
     Rule("regex", Some("bad pattern"), Some(InvalidPattern)),
     Rule("func", Some("func said no"), Some("at_most_one")),
     Rule("func", None, None),
     Rule("require", Some("required"), None)}

\* Field types whose names hold the words the macro looks for (the user
\* struct Optional, the std collection VecDeque), a collection of the deriving
\* struct itself, and the types the enums rule is written for
MoreTypes ==
    {<<"Optional">>, <<"VecDeque", "Inner">>, <<"Vec", "Outer">>, <<"u8">>, <<"Level">>}

\* The rules len, range, size and enums
MoreRules ==
    {SizeRule(Some("size bad"), Some(1), None),
     BoundsRule("len", Some("len bad"), Some(1), None),
     BoundsRule("len", None, None, None),
     BoundsRule("range", Some("range bad"), Some(1), Some(2)),
     EnumsRule(Some("not a level"), Some("Level"), <<>>),
     EnumsRule(Some("not A"), None, <<1>>),
     EnumsRule(Some("no items"), None, <<>>),
     EnumsRule(None, None, <<>>)}

\* One-field structs over every type and every rule, with lists of up to n
\* rules
WideDecls(n) ==
    {Field(ty, m, <<>>, cs) :
        ty \in Types \cup MoreTypes, m \in Messages,
        cs \in SeqsUpTo(RuleAlphabet \cup MoreRules, n)}

\* The first field of the struct: every type, message, tag list and list of up
\* to n rules
FieldDecls(n) ==
    {Field(ty, m, g, cs) :
        ty \in Types, m \in Messages, g \in GroupLists,
        cs \in SeqsUpTo(RuleAlphabet, n)}

\* The fields declared after the first one
TailDecls ==
    {Field(<<"String">>, None, g, <<Rule("not_blank", Some("tail blank"), None)>>) :
        g \in {<<>>, <<GroupB>>}}

\* A second field whose rule has no message
UnmessagedTail == Field(<<"String">>, None, <<>>, <<Rule("not_blank", None, None)>>)

\* The structs of up to n fields, those whose second field is in error, and
\* the one-field structs of the wider alphabet
Inputs(n) ==
    {<<f>> \o t : f \in FieldDecls(MaxRules), t \in SeqsUpTo(TailDecls, n - 1)}
    \cup {<<f, UnmessagedTail>> : f \in FieldDecls(1)}
    \cup {<<f>> : f \in WideDecls(MaxRules - 1)}

\* The names of the Inner records explored: valid, blank, with a space
InnerNames == {<<"a">>, <<" ">>, <<" ", "a">>}

StrValue(s) == [none |-> FALSE, s |-> s, elems |-> <<>>, n |-> 0]

NoneValue == [none |-> TRUE, s |-> <<>>, elems |-> <<>>, n |-> 0]

NumValue(n) == [none |-> FALSE, s |-> <<>>, elems |-> <<>>, n |-> n]

InnerRecords == {<<StrValue(n)>> : n \in InnerNames}

ElemsValue(es) == [none |-> FALSE, s |-> <<>>, elems |-> es, n |-> 0]

\* The records of  struct Outer { f1: Vec<Outer> }  explored as elements:
\* the one with no element, and those holding one or two of it
LeafOuter == <<ElemsValue(<<>>)>>

OuterRecords ==
    {LeafOuter, <<ElemsValue(<<LeafOuter>>)>>, <<ElemsValue(<<LeafOuter, LeafOuter>>)>>}

\* The values of a field of the type.  A HashSet holds no element twice.
ValuesOf(ty) ==
    LET Distinct(es) == \A i, j \in 1..Len(es) : es[i] = es[j] => i = j
        base == ty[Len(ty)]
        coll == IF Len(ty) > 1 THEN ty[Len(ty) - 1] ELSE ""
        present ==
            IF base = "String" THEN {StrValue(s) : s \in StrsUpTo(MaxStrLen)}
            ELSE IF base = "u8" THEN {NumValue(n) : n \in 0..2}
            ELSE IF base = "Level" THEN {NumValue(n) : n \in LevelVariants}
            ELSE IF base = "Outer"
            THEN {ElemsValue(es) : es \in SeqsUpTo(OuterRecords, MaxElems - 1)}
            ELSE IF coll \in {"Vec", "VecDeque"}
            THEN {ElemsValue(es) : es \in SeqsUpTo(InnerRecords, MaxElems)}
            ELSE IF coll = "HashSet"
            THEN {ElemsValue(es) : es \in {x \in SeqsUpTo(InnerRecords, MaxElems) : Distinct(x)}}
            ELSE {ElemsValue(<<r>>) : r \in InnerRecords}
    IN IF ty[1] = "Option" THEN present \cup {NoneValue} ELSE present

\* The values explored for the fields after the first: one that passes
\* not_blank and one that fails it
TailValues == {StrValue(<<"a">>), StrValue(<<" ">>)}

RECURSIVE RecordsFrom(_, _)
RecordsFrom(fields, k) ==
    IF k > Len(fields) THEN {<<>>}
    ELSE {<<v>> \o r :
            v \in IF k = 1 THEN ValuesOf(fields[k].ty) ELSE TailValues,
            r \in RecordsFrom(fields, k + 1)}

RecordsOf(fields) == RecordsFrom(fields, 1)

(***************************************************************************)
(* The pattern registry: the module given to #[regexes_static] and the     *)
(* statics it generates.  Every const NAME becomes                         *)
(*   static PAT_NAME: Lazy<Regex> = Lazy::new(|| Regex::new(lit).unwrap()) *)
(* and Patterns::NAME.regex() is &PAT_NAME, a deref of the Lazy.           *)
(***************************************************************************)
\* The consts of the explored module: one pattern that compiles, one that
\* does not
PatternsModule ==
    <<[ident |-> "DIGITS", lit |-> ValidPattern],
      [ident |-> "BROKEN", lit |-> InvalidPattern]>>

\* enum Patterns
Patterns == {PatternsModule[i].ident : i \in 1..Len(PatternsModule)}

\* A static whose closure holds the literal of the first const
LitOf_first(e) == PatternsModule[1].lit

LitOf(e) == PatternsModule[CHOOSE i \in 1..Len(PatternsModule) : PatternsModule[i].ident = e].lit

Threads == 1..MaxThreads

\* A Lazy before its first use: not initialized, the closure in place, the
\* value slot empty
NewLazy == [state |-> "incomplete", init |-> TRUE, slot |-> None]

\* An initialization check that takes a cell being initialized for ready
is_initialized_early(state) == state # "incomplete"

\* OnceCell::get fast path: the value may be read only once it is published
is_initialized(state) == state = "complete"

\* OnceCell slow path on the cell state: return the value, run the
\* initializer (the compare-exchange incomplete -> running succeeded), or
\* wait for the thread that runs it
initialize_or_wait(state) ==
    CASE state = "complete" -> "returned"
      [] state = "incomplete" -> "init"
      [] state = "running" -> "waiting"

\* An initializer that stays in place after it ran
take_init_keeps(init) == init

\* Lazy::force takes the closure out of the cell: init.take()
take_init(init) == FALSE

(***************************************************************************)
(* #[regexes_static] on a module: the generator.  It reads the items of    *)
(* an inline module, takes every const whose value is a string literal as  *)
(* an entry, and appends to the module one Lazy static per entry, the enum *)
(* Patterns and its impl (regex, names, from_name).                        *)
(***************************************************************************)
MaxItems == 3

\* Identifiers the consts of the explored modules are drawn from
ItemIdents == {"A", "B", "C"}

\* A const's value: a string literal, or another expression
StrLit(s) == [lit |-> TRUE, value |-> s]

NonLit == [lit |-> FALSE, value |-> ""]

ConstItem(ident, expr) == [kind |-> "const", ident |-> ident, expr |-> expr]

\* An item that is not a const
FnItem(ident) == [kind |-> "fn", ident |-> ident, expr |-> NonLit]

ModuleItems ==
    {ConstItem(i, e) : i \in ItemIdents,
                       e \in {StrLit(ValidPattern), StrLit(InvalidPattern), NonLit}}
    \cup {FnItem("helper")}

\* mod name { items }  and  mod name;
InlineModule(items) == [inline |-> TRUE, items |-> items]

OutOfLineModule == [inline |-> FALSE, items |-> <<>>]

Modules(n) == {InlineModule(items) : items \in SeqsUpTo(ModuleItems, n)}
           \cup {OutOfLineModule}

NotInlineError == "regexes_static only supports inline modules (mod name { ... })"

\* The head of the message; its tail is an example declaration
NotLiteralError == "regexes_static: const must be a string literal"

\* A loop over the items that also compiles each literal and reports a
\* pattern that does not compile
RECURSIVE CollectEntries_validating(_, _, _)
CollectEntries_validating(items, k, entries) ==
    IF k > Len(items) THEN [err |-> None, entries |-> entries]
    ELSE LET c == items[k] IN
         IF c.kind # "const" THEN CollectEntries_validating(items, k + 1, entries)
         ELSE IF c.expr.lit /\ RegexNew(c.expr.value).ok
              THEN CollectEntries_validating(items, k + 1,
                       Append(entries, [ident |-> c.ident, lit |-> c.expr.value]))
              ELSE [err |-> Some(NotLiteralError), entries |-> <<>>]

\* The loop over the items: entries in item order, or the error of the
\* first const that is not a string literal
RECURSIVE CollectEntries(_, _, _)
CollectEntries(items, k, entries) ==
    IF k > Len(items) THEN [err |-> None, entries |-> entries]
    ELSE LET c == items[k] IN
         IF c.kind # "const" THEN CollectEntries(items, k + 1, entries)
         ELSE IF c.expr.lit
              THEN CollectEntries(items, k + 1,
                       Append(entries, [ident |-> c.ident, lit |-> c.expr.value]))
              ELSE [err |-> Some(NotLiteralError), entries |-> <<>>]

\* format_ident!("PAT_{}", ident)
static_ident(ident) == "PAT_" \o ident

NoGenerated ==
    [static_decls |-> <<>>, variants |-> <<>>, match_arms |-> <<>>,
     name_strings |-> <<>>, from_name_arms |-> <<>>]

\* name_strings built by prepending, the array in reverse declaration order
name_strings_reversed(entries) ==
    [i \in 1..Len(entries) |-> entries[Len(entries) + 1 - i].ident]

\* name_strings.push(quote! { #name }) for each entry
name_strings_of(entries) == [i \in 1..Len(entries) |-> entries[i].ident]

\* The generated items of a module with the given entries
Generated(entries) ==
    [static_decls |-> [i \in 1..Len(entries) |->
                        [ident |-> static_ident(entries[i].ident), lit |-> entries[i].lit]],
     variants |-> [i \in 1..Len(entries) |-> entries[i].ident],
     match_arms |-> [i \in 1..Len(entries) |->
                        [variant |-> entries[i].ident,
                         static |-> static_ident(entries[i].ident)]],
     name_strings |-> name_strings_of(entries),
     from_name_arms |-> [i \in 1..Len(entries) |->
                        [name |-> entries[i].ident, variant |-> entries[i].ident]]]

\* module.content.take(): the content of the module, and the module left
\* behind with content None
content_take(module) ==
    [content |-> IF module.inline THEN Some(module.items) ELSE None,
     module |-> OutOfLineModule]

\* quote! { #module }: an ItemMod with content prints `mod name { items }`,
\* one with content None prints `mod name;`
ModuleTokens(module) == [body |-> module.inline, items |-> module.items]

\* pub fn regexes_static_gen(mut module) -> TokenStream: a compile error, the
\* module as it is left after content.take() (no entries), or the module
\* rebuilt from the taken items with the generated items
regexes_static_gen(module) ==
    LET taken == content_take(module) IN
    IF taken.content = None
    THEN [err |-> Some(NotInlineError), body |-> FALSE, items |-> <<>>,
          has_patterns |-> FALSE, gen |-> NoGenerated]
    ELSE LET items == taken.content[1]
             c == CollectEntries(items, 1, <<>>)
         IN
         IF c.err # None
         THEN [err |-> c.err, body |-> FALSE, items |-> <<>>, has_patterns |-> FALSE,
               gen |-> NoGenerated]
         ELSE IF c.entries = <<>>
              THEN [err |-> None, body |-> ModuleTokens(taken.module).body,
                    items |-> ModuleTokens(taken.module).items,
                    has_patterns |-> FALSE, gen |-> NoGenerated]
              ELSE [err |-> None, body |-> TRUE, items |-> items, has_patterns |-> TRUE,
                    gen |-> Generated(c.entries)]

\* The names the emitted module defines in the value namespace
ValueNames(out) ==
    [i \in 1..(Len(out.items) + Len(out.gen.static_decls)) |->
        IF i <= Len(out.items) THEN out.items[i].ident
        ELSE out.gen.static_decls[i - Len(out.items)].ident]

\* The macro emitted `mod name;`: rustc looks for the file of the module
Bodiless(out) == out.err = None /\ ~out.body

\* rustc accepts the emitted module: no compile_error!, a module with a body,
\* and no name defined twice (E0428)
ModuleBuilds(out) ==
    /\ out.err = None
    /\ out.body
    /\ LET n == ValueNames(out) IN
       \A i, j \in 1..Len(n) : n[i] = n[j] => i = j

\* Patterns::names(): the static NAMES array
names(out) == out.gen.name_strings

\* from_name that maps a name to the variant declared after it
RECURSIVE from_name_shifted(_, _, _)
from_name_shifted(arms, k, s) ==
    IF k > Len(arms) THEN None
    ELSE IF arms[k].name = s
         THEN Some(arms[(k % Len(arms)) + 1].variant)
         ELSE from_name_shifted(arms, k + 1, s)

\* Patterns::from_name(s): match s { "NAME" => Some(Patterns::NAME), ...,
\* _ => None }, the arms tried in order
RECURSIVE from_name(_, _, _)
from_name(arms, k, s) ==
    IF k > Len(arms) THEN None
    ELSE IF arms[k].name = s THEN Some(arms[k].variant)
         ELSE from_name(arms, k + 1, s)

\* Patterns::regex(&self): the static the match arm of the variant names
static_of(out, v) ==
    out.gen.match_arms[CHOOSE i \in 1..Len(out.gen.match_arms) :
                           out.gen.match_arms[i].variant = v].static

\* The literal the static was declared with
lit_of_static(out, s) ==
    out.gen.static_decls[CHOOSE i \in 1..Len(out.gen.static_decls) :
                             out.gen.static_decls[i].ident = s].lit

\* Strings from_name is called with: declared names and others
LookupNames == ItemIdents \cup {"PAT_A", "a", "helper", ""}

(***************************************************************************)
(* The flat derive (crate core): one attribute per rule on a field.  A     *)
(* field type is a syn::Type: a path with segments and generic arguments,  *)
(* or a type that is not a path (tuple, reference, array).                 *)
(***************************************************************************)
MaxTypeDepth == 2

MaxNest == 7

MaxCoreRules == 2

\* if depth > 5 in from_type_inner
DepthLimit == 5

PathTy(segs, args) == [kind |-> "path", segs |-> segs, args |-> args]

\* A type that is not a path.  The explored ones are the tuple
\* (String, i32), the reference &'static str and the array [u8; 4], named by
\* their kind: "tuple", "reference", "array".
OtherTy(kind) == [kind |-> kind, segs |-> <<>>, args |-> <<>>]

StringTy == PathTy(<<"String">>, <<>>)

PathBufTy == PathTy(<<"std", "path", "PathBuf">>, <<>>)

\* Types without generic arguments: the table of BasicValidationType, a user
\* struct, a std type outside the table, and the types that are not paths
BaseTypeExprs ==
    {PathTy(<<n>>, <<>>) : n \in {"String", "i32", "f64", "bool", "Decimal", "NaiveDate", "Inner"}}
    \cup {PathBufTy}
    \cup {OtherTy(k) : k \in {"tuple", "reference", "array"}}

\* Option<T>, Vec<T>, HashSet<T> over the given types, and some HashMap<K, V>
Wrapped(S) ==
    {PathTy(<<w>>, <<t>>) : w \in {"Option", "Vec", "HashSet"}, t \in S}
    \cup {PathTy(<<"HashMap">>, <<k, v>>) :
            k \in {StringTy, PathTy(<<"i32">>, <<>>), PathBufTy},
            v \in {StringTy, OtherTy("tuple"), PathTy(<<"Vec">>, <<StringTy>>)}}

RECURSIVE TypesOfDepth(_)
TypesOfDepth(d) ==
    IF d = 0 THEN BaseTypeExprs
    ELSE LET S == TypesOfDepth(d - 1) IN S \cup Wrapped(S)

\* Option<Option<...<String>>> with n Options
RECURSIVE OptionNest(_)
OptionNest(n) == IF n = 0 THEN StringTy ELSE PathTy(<<"Option">>, <<OptionNest(n - 1)>>)

InnerTy == PathTy(<<"Inner">>, <<>>)

\* HashMap<String, Inner> and HashMap<Inner, String>
MapsWithRecords ==
    {PathTy(<<"HashMap">>, <<StringTy, InnerTy>>), PathTy(<<"HashMap">>, <<InnerTy, StringTy>>)}

\* Option<Option<...<t>>> with n Options around the type t
RECURSIVE OptionNestOver(_, _)
OptionNestOver(n, t) == IF n = 0 THEN t ELSE PathTy(<<"Option">>, <<OptionNestOver(n - 1, t)>>)

TypeExprs(d) ==
    TypesOfDepth(d) \cup {OptionNest(n) : n \in 1..MaxNest}
    \cup {OptionNestOver(n, PathTy(<<"Vec">>, <<StringTy>>)) : n \in 1..MaxNest - 1}
    \cup MapsWithRecords

Last(q) == q[Len(q)]

\* BasicValidationType::is_custom_type
is_custom_type(segs) ==
    IF segs[1] \in {"std", "core", "alloc", "chrono", "rust_decimal"} THEN FALSE
    ELSE Last(segs) \notin
            {"String", "i8", "i16", "i32", "i64", "i128", "isize", "u8", "u16", "u32",
             "u64", "u128", "usize", "f32", "f64", "bool", "Decimal", "DateTime",
             "NaiveDateTime", "NaiveDate", "Vec", "Option", "HashSet", "HashMap"}

\* BasicValidationType::is_enum_type
is_enum_type(segs) == FALSE

\* BasicValidationType::from_type
basic_from_type(ty) ==
    IF ty.kind # "path" \/ ty.segs = <<>> THEN "Unsupported"
    ELSE LET n == Last(ty.segs) IN
         CASE n = "String" -> "String"
           [] n \in {"i8", "i16", "i32", "i64", "i128", "isize",
                     "u8", "u16", "u32", "u64", "u128", "usize"} -> "Integer"
           [] n \in {"f32", "f64"} -> "Float"
           [] n = "bool" -> "Boolean"
           [] n = "Decimal" -> "Decimal"
           [] n \in {"DateTime", "NaiveDateTime", "NaiveDate"} -> "DateTime"
           [] OTHER -> IF is_custom_type(ty.segs) THEN "CustomStruct"
                       ELSE IF is_enum_type(ty.segs) THEN "Enum"
                       ELSE "Unsupported"

\* enum GenericValidationType
Basic(b) == [tag |-> "Basic", basic |-> b, inner |-> <<>>]

Generic(tag, inner) == [tag |-> tag, basic |-> "", inner |-> inner]

\* BasicValidationType::is_collection_compatible
is_collection_compatible(b) == b # "Unsupported"

\* GenericValidationType::is_valid
RECURSIVE is_valid(_)
is_valid(g) ==
    IF g.tag = "Basic" THEN g.basic # "Unsupported"
    ELSE \A i \in 1..Len(g.inner) : is_valid(g.inner[i])

\* GenericValidationType::from_type_inner
RECURSIVE from_type_inner(_, _)
from_type_inner(ty, depth) ==
    IF depth > DepthLimit THEN Basic("Unsupported")
    ELSE IF ty.kind # "path" \/ ty.segs = <<>> THEN Basic("Unsupported")
    ELSE LET n == Last(ty.segs) IN
         CASE n = "Option" ->
                IF Len(ty.args) >= 1
                THEN LET inner == from_type_inner(ty.args[1], depth + 1) IN
                     IF is_valid(inner) THEN Generic("Option", <<inner>>)
                     ELSE Basic("Unsupported")
                ELSE Basic("Unsupported")
           [] n \in {"Vec", "HashSet"} ->
                IF Len(ty.args) >= 1
                THEN LET inner == from_type_inner(ty.args[1], depth + 1) IN
                     IF inner.tag = "Basic" /\ is_collection_compatible(inner.basic)
                     THEN Generic(n, <<inner>>)
                     ELSE Basic("Unsupported")
                ELSE Basic("Unsupported")
           [] n = "HashMap" ->
                IF Len(ty.args) >= 2
                THEN LET key_inner == from_type_inner(ty.args[1], depth + 1)
                         value_inner == from_type_inner(ty.args[2], depth + 1)
                     IN IF /\ key_inner.tag = "Basic" /\ value_inner.tag = "Basic"
                           /\ is_collection_compatible(key_inner.basic)
                           /\ is_collection_compatible(value_inner.basic)
                        THEN Generic("HashMap", <<key_inner, value_inner>>)
                        ELSE Basic("Unsupported")
                ELSE Basic("Unsupported")
           [] OTHER -> Basic(basic_from_type(ty))

\* A classifier that starts one level below the top
from_type_below(ty) == from_type_inner(ty, 0 - 1)

\* GenericValidationType::from_type
from_type(ty) == from_type_inner(ty, 0)

\* GenericValidationType::get_base_type
RECURSIVE get_base_type(_)
get_base_type(g) ==
    IF g.tag = "Basic" THEN g.basic ELSE get_base_type(g.inner[1])

\* A string test that does not look through the wrappers
generic_is_string_direct(g) == g.tag = "Basic" /\ g.basic = "String"

\* GenericValidationType::is_string: the base type is String
generic_is_string(g) == get_base_type(g) = "String"

is_collection(g) == g.tag \in {"Vec", "HashSet", "HashMap"}

supports_range(g) == get_base_type(g) \in {"Integer", "Float", "Decimal", "DateTime"}

supports_size(g) == generic_is_string(g) \/ is_collection(g)

generic_is_option(g) == g.tag = "Option"

is_custom_struct(g) == get_base_type(g) = "CustomStruct"

\* A base type test for within and exclude that lets every type through
supports_within_exclude_any(b) == TRUE

\* BasicValidationType::supports_within_exclude
supports_within_exclude(b) == b # "Unsupported"

\* The rule attributes of the flat derive
RuleKinds ==
    {"func", "not_blank", "not_empty", "no_space", "range", "regex", "required",
     "size", "within", "exclude", "deep"}

\* struct SizeOptions: the bounds written in #[size(min = .., max = ..)], each
\* an Option<u64>
SizeOptions(min, max) == [min |-> min, max |-> max]

\* #[size(message = "..")], and the value kept for a field without #[size]
Unbounded == SizeOptions(None, None)

\* struct FieldValidation: the type of the field, the rules present on it and
\* the bounds of its size rule
FieldValidation(ty, rules, size) == [field_type |-> ty, rules |-> rules, size |-> size]

\* validate_field_rules: None for Ok(()), or the message of the first check
\* that fails
validate_field_rules(validation) ==
    LET validation_type == from_type(validation.field_type)
        has(r) == r \in validation.rules
    IN
    IF has("not_blank") /\ ~generic_is_string(validation_type)
    THEN Some("not_blank rule can only be applied to String type")
    ELSE IF has("not_empty")
            /\ ~(generic_is_string(validation_type) \/ is_collection(validation_type))
    THEN Some("not_empty rule can only be applied to String, Vec, HashSet, or HashMap types")
    ELSE IF has("no_space") /\ ~generic_is_string(validation_type)
    THEN Some("no_space rule can only be applied to String type")
    ELSE IF has("regex") /\ ~generic_is_string(validation_type)
    THEN Some("regex rule can only be applied to String type")
    ELSE IF has("range") /\ ~supports_range(validation_type)
    THEN Some("range rule can only be applied to numeric types (integers, floats, Decimal) or DateTime types")
    ELSE IF has("size") /\ ~supports_size(validation_type)
    THEN Some("size rule can only be applied to String, Vec, HashSet, or HashMap types")
    ELSE IF has("required") /\ ~generic_is_option(validation_type)
    THEN Some("required rule can only be applied to Option types")
    ELSE IF has("deep")
            /\ ~(is_custom_struct(validation_type)
                 \/ (is_collection(validation_type) /\ is_custom_struct(validation_type)))
    THEN Some("deep rule can only be applied to custom struct types or collections containing custom structs")
    ELSE IF (has("within") \/ has("exclude"))
            /\ ~supports_within_exclude(get_base_type(validation_type))
    THEN Some("within and exclude rules require compatible value types")
    ELSE None

\* The order in which generate_field_validation_code emits its checks; the
\* other rules emit nothing
EmittedOrder == <<"required", "regex", "func", "size", "not_empty", "within">>

\* generate_field_validation_code: the checks of one field.  required is
\*   if self.f.is_none() { return Err(..) }
\* and every other check is wrapped as
\*   if let Some(value) = &self.f { .. }
\* The size check is emitted under
\*   if let (Some(min), Some(max)) = (size.min, size.max)
\* so a size rule that lacks a bound emits nothing.
generate_field_validation_code(field) ==
    LET emitted(r) ==
            /\ r \in field.rules
            /\ r = "size" => (field.size.min # None /\ field.size.max # None)
        present == SelectSeq(EmittedOrder, emitted)
    IN
    [i \in 1..Len(present) |->
        [rule |-> present[i],
         shape |-> IF present[i] = "required" THEN "is_none" ELSE "if_let_some"]]

\* The shapes of struct the derive is put on
StructShapes == {"named", "unnamed", "unit", "enum", "union"}

\* parse_struct_attributes: the fields of a struct with named fields, or an
\* error
parse_struct_attributes(input) ==
    CASE input.shape = "named" -> [err |-> None, fields |-> input.fields]
      [] input.shape = "unnamed" ->
            [err |-> Some("Validate derive macro only supports structs with named fields"),
             fields |-> <<>>]
      [] input.shape = "unit" ->
            [err |-> Some("Validate derive macro does not support unit structs"),
             fields |-> <<>>]
      [] input.shape = "enum" ->
            [err |-> Some("Validate derive macro only supports structs, not enums"),
             fields |-> <<>>]
      [] input.shape = "union" ->
            [err |-> Some("Validate derive macro only supports structs, not unions"),
             fields |-> <<>>]

\* generate_validate_impl: the impl with the checks of every field
generate_validate_impl(fields) ==
    [err |-> None,
     checks |-> [k \in 1..Len(fields) |-> generate_field_validation_code(fields[k])]]

\* The first error validate_field_rules gives over the fields from k on
RECURSIVE FirstRuleError(_, _)
FirstRuleError(fields, k) ==
    IF k > Len(fields) THEN None
    ELSE LET e == validate_field_rules(fields[k]) IN
         IF e # None THEN e ELSE FirstRuleError(fields, k + 1)

\* derive_validate_internal: parse the attributes, classify each field type
\* and check its rules against it, then generate; the first error is the
\* whole result
derive_validate_internal(input) ==
    LET parsed == parse_struct_attributes(input) IN
    IF parsed.err # None THEN [err |-> parsed.err, checks |-> <<>>]
    ELSE LET e == FirstRuleError(parsed.fields, 1) IN
         IF e # None THEN [err |-> e, checks |-> <<>>]
         ELSE generate_validate_impl(parsed.fields)

\* The declared type is Option<X>
IsOptionExpr(ty) == ty.kind = "path" /\ Last(ty.segs) = "Option" /\ Len(ty.args) = 1

\* The type has len() and is_empty(): a string or a collection, and of the
\* types that are not paths &'static str and [u8; 4] (through str and the
\* slice), but not the tuple
HasLen(ty) ==
    IF ty.kind = "path" THEN Last(ty.segs) \in {"String", "Vec", "HashSet", "HashMap"}
    ELSE ty.kind \in {"reference", "array"}

\* The type is Eq + Hash.  f32 and f64 are neither, HashSet and HashMap are
\* not Hash, Option and Vec are what their argument is; the struct Inner of
\* the explored program derives PartialEq, Eq and Hash, and (String, i32),
\* &'static str and [u8; 4] are both.
RECURSIVE HasEqHash(_)
HasEqHash(ty) ==
    IF ty.kind # "path" THEN TRUE
    ELSE CASE Last(ty.segs) \in {"f32", "f64", "HashSet", "HashMap"} -> FALSE
           [] Last(ty.segs) \in {"Option", "Vec"} ->
                Len(ty.args) = 1 /\ HasEqHash(ty.args[1])
           [] OTHER -> TRUE

\* The type is PartialEq: HashSet<T> is for T: Eq + Hash, HashMap<K, V> for
\* K: Eq + Hash and V: PartialEq; (String, i32), &'static str and [u8; 4] are
RECURSIVE HasPartialEq(_)
HasPartialEq(ty) ==
    IF ty.kind # "path" THEN TRUE
    ELSE CASE Last(ty.segs) \in {"Option", "Vec"} ->
                Len(ty.args) = 1 /\ HasPartialEq(ty.args[1])
           [] Last(ty.segs) = "HashSet" -> Len(ty.args) = 1 /\ HasEqHash(ty.args[1])
           [] Last(ty.segs) = "HashMap" ->
                Len(ty.args) = 2 /\ HasEqHash(ty.args[1]) /\ HasPartialEq(ty.args[2])
           [] OTHER -> TRUE

\* rustc on one emitted check of a field of the declared type:
\*  - is_none() and the pattern Some(value) need an Option;
\*  - regex.is_match(value) needs a value that coerces to &str: &String
\*    and &&'static str do;
\*  - `len < #min`: len is a usize and #min a u64 literal (5u64);
\*  - value.is_empty() needs a type that has it (HasLen);
\*  - [values].contains(value) compares with ==, so the inner type is
\*    PartialEq;
\*  - the user function and the within values are written for the inner type.
CheckTypechecks(stmt, ty) ==
    /\ IsOptionExpr(ty)
    /\ stmt.rule = "regex" => (ty.args[1] = StringTy \/ ty.args[1].kind = "reference")
    /\ stmt.rule # "size"
    /\ stmt.rule = "not_empty" => HasLen(ty.args[1])
    /\ stmt.rule = "within" => HasPartialEq(ty.args[1])

\* rustc on the emitted impl
ImplBuilds(fields, out) ==
    /\ out.err = None
    /\ \A k \in 1..Len(out.checks) :
          \A i \in 1..Len(out.checks[k]) :
              CheckTypechecks(out.checks[k][i], fields[k].field_type)

\* The rule sets explored: up to MaxCoreRules rules on the field
RuleSets == {rs \in SUBSET RuleKinds : Cardinality(rs) <= MaxCoreRules}

\* The bounds a size rule is written with: both, one, or none
SizesOf(rs) ==
    IF "size" \in rs
    THEN {SizeOptions(min, max) : min \in {None, Some(1)}, max \in {None, Some(2)}}
    ELSE {Unbounded}

\* The attributes of the field: a rule set with the bounds of its size rule
RuleChoices ==
    UNION {{[rules |-> rs, size |-> sz] : sz \in SizesOf(rs)} : rs \in RuleSets}

\* The inputs of the derive: a struct with one named field, or an item of
\* another shape
DeriveInputs(d) ==
    {[shape |-> "named", fields |-> <<FieldValidation(ty, c.rules, c.size)>>] :
        ty \in TypeExprs(d), c \in RuleChoices}
    \cup {[shape |-> sh, fields |-> <<>>] : sh \in StructShapes \ {"named"}}

(***************************************************************************)
(* State.                                                                  *)
(***************************************************************************)
VARIABLES
    input,      \* the fields of the struct given to the derive macro
    expansion,  \* the macro's output
    pc,         \* "declared", "expanded", "built", "rejected", "returned"
    self,       \* the record of the last call
    call,       \* the last call: None for check(), Some(g) for check_group(g)
    result,     \* what the last call returned
    evals,      \* the rule evaluations of the last call, in order
    cell,       \* the Lazy of each registry entry: [state, init, slot]
    compiles,   \* how many times Regex::new ran for each entry
    thr,        \* each thread: [pc, target, got] of its regex() call
    regmod,     \* the module given to #[regexes_static]
    regout,     \* the generator's output
    gpc,        \* "declared", "expanded", "built", "rejected", "panicked"
    statics,    \* the Lazy of each generated static, by static ident
    query,      \* the last call on Patterns: [op, arg, res]
    cinput,     \* the item given to the flat derive: [shape, fields]
    cout,       \* the flat derive's output: [err, checks]
    cpc,        \* "declared", "expanded", "built", "rejected"
    calls       \* each caller thread: [pc, grp, k, out] of its check on the shared record

valvars == <<input, expansion, pc, self, call, result, evals>>

regvars == <<cell, compiles, thr>>

genvars == <<regmod, regout, gpc, statics, query>>

corevars == <<cinput, cout, cpc>>

concvars == <<calls>>

vars == <<input, expansion, pc, self, call, result, evals, cell, compiles, thr,
          regmod, regout, gpc, statics, query, cinput, cout, cpc, calls>>

NoExpansion == [err |-> None, blocks |-> <<>>]

IdleThread == [pc |-> "idle", target |-> "", got |-> None]

NoOutput ==
    [err |-> None, body |-> FALSE, items |-> <<>>, has_patterns |-> FALSE, gen |-> NoGenerated]

NoQuery == [op |-> "", arg |-> "", res |-> None]

NoChecks == [err |-> None, checks |-> <<>>]

Callers == 1..MaxCallers

IdleCall == [pc |-> "idle", grp |-> None, k |-> 0, out |-> None]

\* A program that does not call the validator from several threads
ConcIdle == calls = [t \in Callers |-> IdleCall]

\* A program that does not use the flat derive
CoreIdle ==
    /\ cinput = [shape |-> "named", fields |-> <<>>]
    /\ cout = NoChecks
    /\ cpc = "declared"

\* A program with no #[regexes_static] module of its own
GenIdle ==
    /\ regmod = InlineModule(<<>>)
    /\ regout = NoOutput
    /\ gpc = "declared"
    /\ statics = <<>>
    /\ query = NoQuery

\* The registry at program start
RegInit ==
    /\ cell = [e \in Patterns |-> NewLazy]
    /\ compiles = [e \in Patterns |-> 0]
    /\ thr = [t \in Threads |-> IdleThread]

Init ==
    /\ input \in Inputs(MaxFields)
    /\ expansion = NoExpansion
    /\ pc = "declared"
    /\ self = <<>>
    /\ call = None
    /\ result = Ok
    /\ evals = <<>>
    /\ RegInit
    /\ ConcIdle
    /\ GenIdle
    /\ CoreIdle

\* #[derive(Validate)] runs
Expand ==
    /\ pc = "declared"
    /\ expansion' = derive_validate(input)
    /\ pc' = "expanded"
    /\ UNCHANGED <<input, self, call, result, evals>>
    /\ UNCHANGED <<regvars, genvars, corevars, concvars>>

\* rustc compiles the emitted impl, or rejects it
Compile ==
    /\ pc = "expanded"
    /\ pc' = IF Builds(input, expansion) THEN "built" ELSE "rejected"
    /\ UNCHANGED <<input, expansion, self, call, result, evals>>
    /\ UNCHANGED <<regvars, genvars, corevars, concvars>>

\* fn check(&self) -> Result<bool, String>
Check ==
    /\ pc = "built"
    /\ \E rec \in RecordsOf(input) :
        LET r == RunFields(expansion.blocks, rec, 1, None) IN
        /\ self' = rec
        /\ call' = None
        /\ result' = r.res
        /\ evals' = r.ev
    /\ pc' = "returned"
    /\ UNCHANGED <<input, expansion>>
    /\ UNCHANGED <<regvars, genvars, corevars, concvars>>

\* fn check_group(&self, _group: Self::Group) -> Result<bool, String>
CheckGroup ==
    /\ pc = "built"
    /\ \E rec \in RecordsOf(input), g \in GroupValues :
        LET r == RunFields(expansion.blocks, rec, 1, Some(g)) IN
        /\ self' = rec
        /\ call' = Some(g)
        /\ result' = r.res
        /\ evals' = r.ev
    /\ pc' = "returned"
    /\ UNCHANGED <<input, expansion>>
    /\ UNCHANGED <<regvars, genvars, corevars, concvars>>

\* The caller is done with the result; the validator can be called again
Return ==
    /\ pc = "returned"
    /\ pc' = "built"
    /\ self' = <<>>
    /\ call' = None
    /\ result' = Ok
    /\ evals' = <<>>
    /\ UNCHANGED <<input, expansion>>
    /\ UNCHANGED <<regvars, genvars, corevars, concvars>>

Next == Expand \/ Compile \/ Check \/ CheckGroup \/ Return

Spec == Init /\ [][Next]_vars

(***************************************************************************)
(* One record shared by several threads that call check() and              *)
(* check_group() on it at the same time.  Each call advances one field     *)
(* block at a time; the calls interleave between the blocks.               *)
(***************************************************************************)
\* The structs explored under concurrent calls: a first field with any tag
\* list and at most one rule, alone or followed by a second field
ConcDecls ==
    {Field(ty, None, g, cs) :
        ty \in {<<"String">>, <<"Option", "String">>, <<"Option", "Inner">>, <<"Vec", "Inner">>},
        g \in GroupLists,
        cs \in {<<>>, <<Rule("not_blank", Some("blank"), None)>>}}

ConcInputs == {<<f>> \o t : f \in ConcDecls, t \in SeqsUpTo(TailDecls, 1)}

\* The records shared: those whose first field holds at most one character or
\* one nested record
ConcRecords(fields) ==
    {rec \in RecordsOf(fields) : Len(rec[1].s) <= 1 /\ Len(rec[1].elems) <= 1}

ConcInit ==
    /\ input \in ConcInputs
    /\ expansion = NoExpansion
    /\ pc = "declared"
    /\ self = <<>>
    /\ call = None
    /\ result = Ok
    /\ evals = <<>>
    /\ RegInit
    /\ ConcIdle
    /\ GenIdle
    /\ CoreIdle

\* The program builds a record and shares a reference to it (Arc<Outer>)
Share ==
    /\ pc = "built"
    /\ \E rec \in ConcRecords(input) : self' = rec
    /\ pc' = "shared"
    /\ UNCHANGED <<input, expansion, call, result, evals>>
    /\ UNCHANGED <<regvars, genvars, corevars, concvars>>

\* Thread t calls check() or check_group(g) on the shared record
Invoke(t) ==
    /\ pc = "shared"
    /\ calls[t].pc = "idle"
    /\ \E grp \in {None} \cup {Some(g) : g \in GroupValues} :
        calls' = [calls EXCEPT ![t] = [pc |-> "running", grp |-> grp, k |-> 1, out |-> None]]
    /\ UNCHANGED valvars
    /\ UNCHANGED <<regvars, genvars, corevars>>

\* The call of thread t runs its next field block, or returns Ok(true)
StepField(t) ==
    /\ pc = "shared"
    /\ calls[t].pc = "running"
    /\ \E st \in {field_step(expansion.blocks, self, calls[t].k, calls[t].grp)} :
       /\ self' = st.rec
       /\ calls' = [calls EXCEPT ![t].k = st.k, ![t].out = st.out,
                                 ![t].pc = IF st.out = None THEN "running" ELSE "returned"]
    /\ UNCHANGED <<input, expansion, pc, call, result, evals>>
    /\ UNCHANGED <<regvars, genvars, corevars>>

\* The caller of thread t has taken the outcome
Finish(t) ==
    /\ pc = "shared"
    /\ calls[t].pc = "returned"
    /\ calls' = [calls EXCEPT ![t] = IdleCall]
    /\ UNCHANGED valvars
    /\ UNCHANGED <<regvars, genvars, corevars>>

ConcNext ==
    \/ Expand
    \/ Compile
    \/ Share
    \/ \E t \in Callers : Invoke(t) \/ StepField(t) \/ Finish(t)

ConcSpec == ConcInit /\ [][ConcNext]_vars

(***************************************************************************)
(* The registry in use: threads call Patterns::NAME.regex().               *)
(***************************************************************************)
\* A program that uses the registry and derives no validator
RegOnlyInit ==
    /\ input = <<>>
    /\ expansion = NoExpansion
    /\ pc = "declared"
    /\ self = <<>>
    /\ call = None
    /\ result = Ok
    /\ evals = <<>>
    /\ RegInit
    /\ ConcIdle
    /\ GenIdle
    /\ CoreIdle

\* The matcher the n-th run of Regex::new(lit) on entry e builds
Matcher(e, n) == [entry |-> e, lit |-> LitOf(e), build |-> n]

\* Thread t calls Patterns::e.regex()
Access(t) ==
    /\ thr[t].pc = "idle"
    /\ \E e \in Patterns :
        thr' = [thr EXCEPT ![t] = [pc |-> "fast", target |-> e, got |-> None]]
    /\ UNCHANGED <<cell, compiles>>
    /\ UNCHANGED <<valvars, genvars, corevars, concvars>>

\* Lazy::force, fast path: an initialized cell hands out its value
FastPath(t) ==
    /\ thr[t].pc = "fast"
    /\ LET c == cell[thr[t].target] IN
       thr' = [thr EXCEPT ![t] =
                IF is_initialized(c.state)
                THEN [@ EXCEPT !.pc = "returned", !.got = c.slot]
                ELSE [@ EXCEPT !.pc = "slow"]]
    /\ UNCHANGED <<cell, compiles>>
    /\ UNCHANGED <<valvars, genvars, corevars, concvars>>

\* Lazy::force, slow path: claim the initialization, wait for it, or find it
\* done
SlowPath(t) ==
    /\ thr[t].pc = "slow"
    /\ LET e == thr[t].target
           to == initialize_or_wait(cell[e].state)
       IN /\ thr' = [thr EXCEPT ![t] =
                      IF to = "returned"
                      THEN [@ EXCEPT !.pc = "returned", !.got = cell[e].slot]
                      ELSE [@ EXCEPT !.pc = to]]
          /\ cell' = IF to = "init" THEN [cell EXCEPT ![e].state = "running"] ELSE cell
    /\ UNCHANGED compiles
    /\ UNCHANGED <<valvars, genvars, corevars, concvars>>

\* A waiting thread is woken when the initializing thread is done
Wake(t) ==
    /\ thr[t].pc = "waiting"
    /\ cell[thr[t].target].state # "running"
    /\ thr' = [thr EXCEPT ![t].pc = "slow"]
    /\ UNCHANGED <<cell, compiles>>
    /\ UNCHANGED <<valvars, genvars, corevars, concvars>>

\* The thread that claimed the cell runs the initializer:
\*   match init.take() { Some(f) => f(), None => panic!(poisoned) }
\* with f = || Regex::new(lit).unwrap().  A panic leaves the cell incomplete.
InitClosure(t) ==
    /\ thr[t].pc = "init"
    /\ LET e == thr[t].target IN
       /\ compiles[e] < MaxCompiles
       /\ IF ~cell[e].init
          THEN /\ cell' = [cell EXCEPT ![e].state = "incomplete"]
               /\ thr' = [thr EXCEPT ![t].pc = "panicked"]
               /\ UNCHANGED compiles
          ELSE /\ compiles' = [compiles EXCEPT ![e] = @ + 1]
               /\ IF RegexNew(LitOf(e)).ok
                  THEN /\ cell' = [cell EXCEPT ![e].init = take_init(@),
                                               ![e].slot = Some(Matcher(e, compiles[e] + 1))]
                       /\ thr' = [thr EXCEPT ![t].pc = "publish"]
                  ELSE /\ cell' = [cell EXCEPT ![e].init = take_init(@),
                                               ![e].state = "incomplete"]
                       /\ thr' = [thr EXCEPT ![t].pc = "panicked"]
    /\ UNCHANGED <<valvars, genvars, corevars, concvars>>

\* The initializing thread publishes the value and returns it
Publish(t) ==
    /\ thr[t].pc = "publish"
    /\ LET e == thr[t].target IN
       /\ cell' = [cell EXCEPT ![e].state = "complete"]
       /\ thr' = [thr EXCEPT ![t].pc = "returned", ![t].got = cell[e].slot]
    /\ UNCHANGED compiles
    /\ UNCHANGED <<valvars, genvars, corevars, concvars>>

\* The caller is done with the matcher
Release(t) ==
    /\ thr[t].pc = "returned"
    /\ thr' = [thr EXCEPT ![t] = IdleThread]
    /\ UNCHANGED <<cell, compiles>>
    /\ UNCHANGED <<valvars, genvars, corevars, concvars>>

\* The panic of a failed access is caught; the thread goes on
Recover(t) ==
    /\ thr[t].pc = "panicked"
    /\ thr' = [thr EXCEPT ![t] = IdleThread]
    /\ UNCHANGED <<cell, compiles>>
    /\ UNCHANGED <<valvars, genvars, corevars, concvars>>

RegNext ==
    \E t \in Threads :
        \/ Access(t)
        \/ FastPath(t)
        \/ SlowPath(t)
        \/ Wake(t)
        \/ InitClosure(t)
        \/ Publish(t)
        \/ Release(t)
        \/ Recover(t)

RegSpec == RegOnlyInit /\ [][RegNext]_vars

\* The registry in use under a fair scheduler: a thread inside regex() is not
\* held back for ever
RegFairSpec ==
    /\ RegSpec
    /\ \A t \in Threads :
          WF_vars(FastPath(t) \/ SlowPath(t) \/ Wake(t) \/ InitClosure(t) \/ Publish(t))

(***************************************************************************)
(* A module under #[regexes_static]: expansion, compilation, and a program *)
(* that calls names(), from_name() and regex() on the generated Patterns.  *)
(***************************************************************************)
GenInit ==
    /\ input = <<>>
    /\ expansion = NoExpansion
    /\ pc = "declared"
    /\ self = <<>>
    /\ call = None
    /\ result = Ok
    /\ evals = <<>>
    /\ RegInit
    /\ ConcIdle
    /\ regmod \in Modules(MaxItems)
    /\ regout = NoOutput
    /\ gpc = "declared"
    /\ statics = <<>>
    /\ query = NoQuery
    /\ CoreIdle

\* The attribute macro runs
GenExpand ==
    /\ gpc = "declared"
    /\ regout' = regexes_static_gen(regmod)
    /\ gpc' = "expanded"
    /\ UNCHANGED <<regmod, statics, query>>
    /\ UNCHANGED <<valvars, regvars, corevars, concvars>>

\* rustc compiles the emitted module; the program starts with every static
\* not yet initialized.  For `mod name;` the build depends on whether a file
\* of that name lies beside the source.
GenCompile ==
    /\ gpc = "expanded"
    /\ IF ModuleBuilds(regout)
       THEN /\ gpc' = "built"
            /\ statics' = [s \in {regout.gen.static_decls[i].ident :
                                    i \in 1..Len(regout.gen.static_decls)} |-> NewLazy]
       ELSE IF Bodiless(regout)
            THEN /\ gpc' \in {"built", "rejected"}
                 /\ UNCHANGED statics
            ELSE /\ gpc' = "rejected"
                 /\ UNCHANGED statics
    /\ UNCHANGED <<regmod, regout, query>>
    /\ UNCHANGED <<valvars, regvars, corevars, concvars>>

\* Patterns::names()
Names ==
    /\ gpc = "built"
    /\ regout.has_patterns
    /\ query' = [op |-> "names", arg |-> "", res |-> Some(names(regout))]
    /\ UNCHANGED <<regmod, regout, gpc, statics>>
    /\ UNCHANGED <<valvars, regvars, corevars, concvars>>

\* Patterns::from_name(s)
FromName ==
    /\ gpc = "built"
    /\ regout.has_patterns
    /\ \E s \in LookupNames :
        query' = [op |-> "from_name", arg |-> s,
                  res |-> from_name(regout.gen.from_name_arms, 1, s)]
    /\ UNCHANGED <<regmod, regout, gpc, statics>>
    /\ UNCHANGED <<valvars, regvars, corevars, concvars>>

\* Patterns::V.regex() on one thread: the Lazy is forced; its first use runs
\* Regex::new(lit).unwrap(), which panics on a pattern that does not compile
RegexOf ==
    /\ gpc = "built"
    /\ regout.has_patterns
    /\ \E i \in 1..Len(regout.gen.variants) :
        LET v == regout.gen.variants[i]
            s == static_of(regout, v)
            c == statics[s]
            lit == lit_of_static(regout, s)
        IN IF is_initialized(c.state)
           THEN /\ query' = [op |-> "regex", arg |-> v, res |-> c.slot]
                /\ UNCHANGED <<gpc, statics>>
           ELSE IF ~c.init
                THEN /\ query' = [op |-> "regex", arg |-> v, res |-> None]
                     /\ gpc' = "panicked"
                     /\ UNCHANGED statics
                ELSE IF RegexNew(lit).ok
                     THEN /\ statics' = [statics EXCEPT ![s] =
                                [state |-> "complete", init |-> take_init(c.init),
                                 slot |-> Some([static |-> s, lit |-> lit])]]
                          /\ query' = [op |-> "regex", arg |-> v,
                                       res |-> Some([static |-> s, lit |-> lit])]
                          /\ UNCHANGED gpc
                     ELSE /\ statics' = [statics EXCEPT ![s].init = take_init(c.init)]
                          /\ query' = [op |-> "regex", arg |-> v, res |-> None]
                          /\ gpc' = "panicked"
    /\ UNCHANGED <<regmod, regout>>
    /\ UNCHANGED <<valvars, regvars, corevars, concvars>>

\* The panic is caught (catch_unwind) and the program goes on
GenRecover ==
    /\ gpc = "panicked"
    /\ gpc' = "built"
    /\ UNCHANGED <<regmod, regout, statics, query>>
    /\ UNCHANGED <<valvars, regvars, corevars, concvars>>

GenNext == GenExpand \/ GenCompile \/ Names \/ FromName \/ RegexOf \/ GenRecover

GenSpec == GenInit /\ [][GenNext]_vars

(***************************************************************************)
(* The flat derive on an item: expansion, then rustc on its output.        *)
(***************************************************************************)
CoreInit ==
    /\ input = <<>>
    /\ expansion = NoExpansion
    /\ pc = "declared"
    /\ self = <<>>
    /\ call = None
    /\ result = Ok
    /\ evals = <<>>
    /\ RegInit
    /\ ConcIdle
    /\ GenIdle
    /\ cinput \in DeriveInputs(MaxTypeDepth)
    /\ cout = NoChecks
    /\ cpc = "declared"

\* pub fn derive_validate(input: TokenStream) -> TokenStream: the tokens of
\* the impl, or err.to_compile_error()
CoreExpand ==
    /\ cpc = "declared"
    /\ cout' = derive_validate_internal(cinput)
    /\ cpc' = "expanded"
    /\ UNCHANGED cinput
    /\ UNCHANGED <<valvars, regvars, genvars, concvars>>

\* rustc compiles the output: the compile error, or the impl
CoreCompile ==
    /\ cpc = "expanded"
    /\ cpc' = IF ImplBuilds(cinput.fields, cout) THEN "built" ELSE "rejected"
    /\ UNCHANGED <<cinput, cout>>
    /\ UNCHANGED <<valvars, regvars, genvars, concvars>>

CoreNext == CoreExpand \/ CoreCompile

CoreSpec == CoreInit /\ [][CoreNext]_vars

(***************************************************************************)
(* Vocabulary of the properties.                                           *)
(***************************************************************************)
\* The field the properties are stated about
F1 == input[1]

\* rustc has accepted or rejected the emitted impl
Resolved == pc \in {"built", "rejected", "returned"}

\* The rules of a field that stand for a check (the others emit nothing)
EmittingRules(f) == {i \in 1..Len(f.checks) : Emits(f.checks[i])}

\* What rule c decides on the field value v
Verdict(c, v) ==
    Call(Stmt(CallOf(c), opt_access, c, IF c.msg = None THEN "" ELSE c.msg[1], 0), v)

PassingRules(f, v) == {i \in EmittingRules(f) : Verdict(f.checks[i], v).ok}

FailingRules(f, v) == {i \in EmittingRules(f) : ~Verdict(f.checks[i], v).ok}

Min(S) == CHOOSE x \in S : \A y \in S : x <= y

\* The rules of field k evaluated by the last call, in the order of evaluation
RulesEvaluated(k) ==
    LET own == SelectSeq(evals, LAMBDA e : e.path = <<k>>) IN
    [i \in 1..Len(own) |-> own[i].rule]

\* q lists the members of S once each, in increasing order
IsAscending(q, S) ==
    /\ Len(q) = Cardinality(S)
    /\ \A i \in 1..Len(q) : q[i] \in S
    /\ \A i \in 1..Len(q) - 1 : q[i] < q[i + 1]

\* The attached rules of field 1 (its any_block) let the value rec[1] through
OwnRulesPass(rec) ==
    LET b == expansion.blocks[1]
        st == RunStmts(b.stmts, 1, b.mode, rec[1], 1)
    IN IF b.mode = "any" THEN st.passed ELSE st.ret = None

\* What the nested record's own unscoped check returns on the record item
NestedCheck(item) == RunFields(derive_validate(InnerFields).blocks, item, 1, None)

\* The nested records held by a field value
NestedOf(v) == IF v.none THEN <<>> ELSE v.elems

\* The evaluations the last call made inside the nested records of field k,
\* as [element, rule]
NestedEvaluated(k) ==
    LET inside == SelectSeq(evals, LAMBDA e : Len(e.path) = 3 /\ e.path[1] = k) IN
    [i \in 1..Len(inside) |-> <<inside[i].path[2], inside[i].rule>>]

\* The evaluations of checking elements 1..j of items one after the other
RECURSIVE NestedTrace(_, _, _)
NestedTrace(items, j, from) ==
    IF from > j THEN <<>>
    ELSE LET ev == NestedCheck(items[from]).ev IN
         [i \in 1..Len(ev) |-> <<from, ev[i].rule>>] \o NestedTrace(items, j, from + 1)

FailingElements(items) == {j \in 1..Len(items) : ~NestedCheck(items[j]).res.ok}

(***************************************************************************)
(* Properties of check(): modes.                                           *)
(***************************************************************************)
\* C1: for an ALL-mode field whose first failing rule is rule i, check() fails
\* with exactly the message of rule i, having evaluated the rules before i
\* once each in declaration order and no rule after i.
C1_AllModeFirstFailingRule ==
    (pc = "returned" /\ call = None /\ ~any_mode(F1)
        /\ FailingRules(F1, self[1]) # {}) =>
        LET i == Min(FailingRules(F1, self[1])) IN
        /\ result = Err(F1.checks[i].msg[1])
        /\ IsAscending(RulesEvaluated(1), {j \in EmittingRules(F1) : j <= i})

\* The order and short-circuit half of C1 on its own: the rules evaluated are
\* the rules up to the first failing one, once each, in declaration order.
AllModeEvaluationOrder ==
    (pc = "returned" /\ call = None /\ ~any_mode(F1)
        /\ FailingRules(F1, self[1]) # {}) =>
        IsAscending(RulesEvaluated(1),
                    {j \in EmittingRules(F1) : j <= Min(FailingRules(F1, self[1]))})

\* C2: for an ANY-mode field with at least one rule that passes on the value,
\* there is a validator and its check() does not fail on that field, whatever
\* the other rules decide.
C2_AnyModeOnePassingRuleSuffices ==
    (Resolved /\ any_mode(F1)) =>
        \A rec \in RecordsOf(input) :
            PassingRules(F1, rec[1]) # {} =>
                pc # "rejected" /\ OwnRulesPass(rec)

\* C3: for an ANY-mode field on which every attached rule fails, there is a
\* validator and its check() fails with exactly the field-level message.
C3_AnyModeAllFailFieldMessage ==
    (Resolved /\ any_mode(F1) /\ EmittingRules(F1) # {}) =>
        \A rec \in RecordsOf(input) :
            PassingRules(F1, rec[1]) = {} =>
                /\ pc # "rejected"
                /\ RunFields(expansion.blocks, rec, 1, None).res = Err(F1.message[1])

(***************************************************************************)
(* Properties of check(): optional fields.                                 *)
(***************************************************************************)
HasRequired(f) == \E i \in 1..Len(f.checks) : f.checks[i].kind = "require"

\* C4: for a field of Optional type that is absent and carries no Required
\* rule, in either mode, there is a validator whose check() evaluates none of
\* the field's rules and lets the field pass.
C4_AbsentOptionalSkipsRules ==
    (Resolved /\ is_option(F1.ty) /\ ~HasRequired(F1)) =>
        \A rec \in RecordsOf(input) :
            rec[1].none =>
                /\ pc # "rejected"
                /\ RunBlock(expansion.blocks, rec[1], 1).res.ok
                /\ RunBlock(expansion.blocks, rec[1], 1).ev = <<>>

\* C5: for a field of Optional type that is absent and carries a Required
\* rule, check() fails with exactly the message of the Required rule.
C5_AbsentOptionalRequiredFails ==
    (pc = "returned" /\ call = None /\ is_option(F1.ty) /\ self[1].none
        /\ HasRequired(F1)) =>
        \E i \in 1..Len(F1.checks) :
            /\ F1.checks[i].kind = "require"
            /\ result = Err(F1.checks[i].msg[1])

\* C5 happens: check() has returned the Required message for an absent Option
C5_Witness ==
    /\ pc = "returned" /\ call = None
    /\ is_option(F1.ty) /\ self[1].none /\ HasRequired(F1)
    /\ result = Err("required")
    /\ RulesEvaluated(1) # <<>>

(***************************************************************************)
(* Properties of check_group().                                            *)
(***************************************************************************)
\* The group tags of a field, as the values check_group compares them with
Tags(f) == {to_value(f.group[i]) : i \in 1..Len(f.group)}

\* Field k takes part in a check scoped to g
Selected(k, g) == Tags(input[k]) = {} \/ g \in Tags(input[k])

\* What validating field k of the record of the last call gives
FieldRun(k) == RunBlock(expansion.blocks, self[k], k)

\* The evaluations of the last call on field k and inside its nested records
FieldEvals(k) == SelectSeq(evals, LAMBDA e : e.path[1] = k)

\* C6: check_group(g) skips every field whose non-empty tag set does not
\* contain g and validates, in declaration order up to the first failure, the
\* fields whose tag set contains g and the fields without tags; its result is
\* that first failure, or Pass.
C6_GroupFilter ==
    (pc = "returned" /\ call # None) =>
        LET g == call[1]
            failing == {k \in 1..Len(input) : Selected(k, g) /\ ~FieldRun(k).res.ok}
        IN /\ \A k \in 1..Len(input) : ~Selected(k, g) => FieldEvals(k) = <<>>
           /\ \A k \in 1..Len(input) :
                (Selected(k, g) /\ \A j \in failing : k <= j) =>
                    FieldEvals(k) = FieldRun(k).ev
           /\ result = IF failing = {} THEN Ok ELSE FieldRun(Min(failing)).res

\* C6 happens: under g the first field, tagged without g and holding a value
\* that breaks its rule, was skipped, and the second field, tagged with g, was
\* validated and gave the result.
C6_Witness ==
    /\ pc = "returned" /\ call # None /\ Len(input) = 2
    /\ Tags(input[1]) # {} /\ ~Selected(1, call[1]) /\ ~FieldRun(1).res.ok
    /\ FieldEvals(1) = <<>>
    /\ Tags(input[2]) # {} /\ Selected(2, call[1]) /\ FieldEvals(2) # <<>>
    /\ result = Err("tail blank")

(***************************************************************************)
(* Properties of check(): nested records.                                  *)
(***************************************************************************)
\* A field that is a collection of Inner records
IsRecordCollection(ty) == ty \in {<<"Vec", "Inner">>, <<"HashSet", "Inner">>}

\* A field holding Inner records: direct, Optional, Sequence or Set
HoldsRecords(ty) ==
    ty \in {<<"Inner">>, <<"Option", "Inner">>, <<"Vec", "Inner">>, <<"HashSet", "Inner">>}

\* The element up to which the records items are checked: the first one whose
\* check fails, or the last one
LastChecked(items) ==
    IF FailingElements(items) = {} THEN Len(items) ELSE Min(FailingElements(items))

\* C7: the elements of a collection-of-records field are validated in
\* collection order by the nested record's check; when element k is the first
\* whose check fails, check() fails with exactly that failure's message and no
\* element after k is evaluated.
C7_CollectionElementsInOrder ==
    (pc = "returned" /\ call = None /\ IsRecordCollection(F1.ty) /\ OwnRulesPass(self)) =>
        LET items == self[1].elems IN
        /\ NestedEvaluated(1) = NestedTrace(items, LastChecked(items), 1)
        /\ FailingElements(items) # {} =>
                result = NestedCheck(items[LastChecked(items)]).res

\* C7 on the sequences alone (Vec fields): elements in order, the first failure
\* returned unchanged, nothing evaluated after it.
VecElementsInOrder ==
    (pc = "returned" /\ call = None /\ F1.ty = <<"Vec", "Inner">> /\ OwnRulesPass(self)) =>
        LET items == self[1].elems IN
        /\ NestedEvaluated(1) = NestedTrace(items, LastChecked(items), 1)
        /\ FailingElements(items) # {} =>
                result = NestedCheck(items[LastChecked(items)]).res

\* C8: for a field holding records (direct, Optional, Sequence or Set) check()
\* runs the nested record's unscoped check on the records it holds, after the
\* field's own rules and only if they pass, and a nested failure is the
\* result.
C8_NestedRecordChecked ==
    (pc = "returned" /\ call = None /\ HoldsRecords(F1.ty)) =>
        IF OwnRulesPass(self)
        THEN LET items == NestedOf(self[1]) IN
             /\ NestedEvaluated(1) = NestedTrace(items, LastChecked(items), 1)
             /\ FailingElements(items) # {} =>
                    result = NestedCheck(items[LastChecked(items)]).res
             /\ \A a, b \in 1..Len(evals) :
                    (a < b /\ evals[b].path = <<1>>) => evals[a].path = <<1>>
        ELSE NestedEvaluated(1) = <<>>

\* C8 on the Optional and Sequence holders alone
OptionAndVecNestedChecked ==
    (pc = "returned" /\ call = None
        /\ F1.ty \in {<<"Option", "Inner">>, <<"Vec", "Inner">>}) =>
        IF OwnRulesPass(self)
        THEN LET items == NestedOf(self[1]) IN
             /\ NestedEvaluated(1) = NestedTrace(items, LastChecked(items), 1)
             /\ FailingElements(items) # {} =>
                    result = NestedCheck(items[LastChecked(items)]).res
             /\ \A a, b \in 1..Len(evals) :
                    (a < b /\ evals[b].path = <<1>>) => evals[a].path = <<1>>
        ELSE NestedEvaluated(1) = <<>>

(***************************************************************************)
(* Properties of the pattern registry.                                     *)
(***************************************************************************)
\* The threads whose regex() call on entry e is in the given position
ThreadsAt(e, where) == {t \in Threads : thr[t].target = e /\ thr[t].pc \in where}

\* C9: the pattern of each registry entry is compiled exactly once, however
\* many threads perform the first access concurrently: never more than once,
\* and once as soon as an access of the entry has ended.
C9_CompiledExactlyOnce ==
    \A e \in Patterns :
        /\ compiles[e] <= 1
        /\ (ThreadsAt(e, {"publish", "returned", "panicked"}) # {}
                \/ cell[e].state = "complete") => compiles[e] = 1

\* C9 happens: three threads made the first access of one entry together; one
\* compiled the pattern and returned while the others were still in their
\* first access, one of them waiting for the initialization.
C9_Witness ==
    \E e \in Patterns :
        /\ compiles[e] = 1
        /\ ThreadsAt(e, {"returned"}) # {}
        /\ ThreadsAt(e, {"waiting"}) # {}
        /\ ThreadsAt(e, {"slow"}) # {}

\* C10: every call of regex() on an entry returns the entry's one matcher,
\* fully initialized, and once the entry holds a matcher it is never replaced.
C10_SameInstanceNeverReplaced ==
    /\ [](\A t \in Threads :
            thr[t].pc = "returned" =>
                /\ thr[t].got = Some(Matcher(thr[t].target, 1))
                /\ cell[thr[t].target].slot = thr[t].got
                /\ cell[thr[t].target].state = "complete")
    /\ [][\A e \in Patterns : cell[e].slot # None => cell'[e].slot = cell[e].slot]_vars

\* C10 happens: the thread that initialized the entry and a thread that came
\* after it hold the same matcher.
C10_Witness ==
    \E t1, t2 \in Threads :
        /\ t1 # t2
        /\ thr[t1].pc = "returned" /\ thr[t2].pc = "returned"
        /\ thr[t1].target = thr[t2].target
        /\ thr[t1].got # None /\ thr[t1].got = thr[t2].got
        /\ compiles[thr[t1].target] = 1

(***************************************************************************)
(* The generated registry surface.                                         *)
(***************************************************************************)
\* The consts of the module under the attribute, in declaration order
DeclaredConsts == SelectSeq(regmod.items, LAMBDA it : it.kind = "const")

DeclaredNames == [i \in 1..Len(DeclaredConsts) |-> DeclaredConsts[i].ident]

DeclaredNameSet == {DeclaredNames[i] : i \in 1..Len(DeclaredNames)}

\* The literal the module gives the const of that name
SourceLit(name) ==
    DeclaredConsts[CHOOSE i \in 1..Len(DeclaredConsts) :
                       DeclaredConsts[i].ident = name].expr.value

NoDuplicates(q) == \A i, j \in 1..Len(q) : q[i] = q[j] => i = j

\* The registry exists: the module was accepted and declares a const
HasRegistry == gpc \in {"built", "panicked"} /\ regout.has_patterns

\* C11: names() returns exactly the names of the consts of the module: every
\* declared name, no other name, in declaration order, none twice.
C11_NamesInDeclarationOrder ==
    (HasRegistry /\ query.op = "names") =>
        /\ query.res = Some(DeclaredNames)
        /\ NoDuplicates(query.res[1])

\* names() was called on a module whose consts are declared out of
\* alphabetical order, with an item that is not a const between them
C11_Witness ==
    /\ HasRegistry
    /\ query.op = "names"
    /\ query.res = Some(<<"B", "A">>)
    /\ Len(regmod.items) = 3
    /\ regmod.items[2].kind = "fn"

\* C12: from_name(s) returns a variant iff s is a declared name, None
\* otherwise; the variant of a name is the one whose static is built from
\* that name's own literal; distinct names give distinct variants and
\* statics; every name of names() resolves.
C12_FromNameResolvesOwnPattern ==
    HasRegistry =>
        LET arms == regout.gen.from_name_arms IN
        /\ query.op = "from_name" =>
              /\ query.res # None <=> query.arg \in DeclaredNameSet
              /\ query.res # None =>
                    lit_of_static(regout, static_of(regout, query.res[1]))
                        = SourceLit(query.arg)
        /\ (query.op = "regex" /\ query.res # None) =>
              query.res[1].lit = SourceLit(query.arg)
        /\ \A a, b \in DeclaredNameSet :
              a # b => /\ from_name(arms, 1, a) # from_name(arms, 1, b)
                       /\ static_of(regout, from_name(arms, 1, a)[1])
                            # static_of(regout, from_name(arms, 1, b)[1])
        /\ \A i \in 1..Len(names(regout)) :
              from_name(arms, 1, names(regout)[i]) # None

\* from_name("B") returned the variant B on a registry where A and B have
\* different literals
C12_Witness ==
    /\ HasRegistry
    /\ query.op = "from_name"
    /\ query.arg = "B"
    /\ query.res = Some("B")
    /\ DeclaredNames = <<"A", "B">>
    /\ SourceLit("A") # SourceLit("B")

\* A lookup of a string that is not a declared name returned None
C12_NotFoundReached ==
    /\ HasRegistry
    /\ query.op = "from_name"
    /\ query.arg \notin DeclaredNameSet
    /\ query.res = None

\* The module is one the generator and rustc accept whatever its literals
\* hold: inline, every const a string literal, no name declared twice
WellFormedModule ==
    /\ regmod.inline
    /\ \A i \in 1..Len(regmod.items) :
          regmod.items[i].kind = "const" => regmod.items[i].expr.lit
    /\ \A i, j \in 1..Len(regmod.items) :
          regmod.items[i].ident = regmod.items[j].ident => i = j

HasInvalidPattern ==
    \E i \in 1..Len(DeclaredConsts) : ~RegexNew(DeclaredConsts[i].expr.value).ok

\* C13: a module with a const whose literal is not a valid pattern is
\* generated and built like any other; the panic comes only from a regex()
\* call on that entry, never from generation, names() or from_name().
C13_InvalidPatternFailsAtFirstUse ==
    /\ (WellFormedModule /\ DeclaredConsts # <<>> /\ gpc # "declared") => regout.err = None
    /\ (WellFormedModule /\ DeclaredConsts # <<>> /\ gpc \notin {"declared", "expanded"}) =>
          gpc # "rejected"
    /\ gpc = "panicked" =>
          /\ query.op = "regex"
          /\ query.res = None
          /\ ~RegexNew(SourceLit(query.arg)).ok

\* The module with an invalid pattern was built, names() and from_name()
\* were usable, and the first regex() on the invalid entry panicked
C13_Witness ==
    /\ gpc = "panicked"
    /\ HasInvalidPattern
    /\ query.op = "regex"
    /\ ~statics[static_of(regout, query.arg)].init
    /\ statics[static_of(regout, query.arg)].state = "incomplete"

(***************************************************************************)
(* Properties of check(): group tags.                                      *)
(***************************************************************************)
\* The schema with the group tags of every field removed
Untagged(fields) == [k \in 1..Len(fields) |-> [fields[k] EXCEPT !.group = <<>>]]

\* C20: check() validates every field whatever its group tags: its result and
\* its evaluations are those of check() on the same record under the schema
\* with all group tags removed, so a tagged field whose value breaks a rule
\* fails check() as an untagged one would.
C20_CheckIgnoresGroupTags ==
    (pc = "returned" /\ call = None) =>
        LET plain == RunFields(derive_validate(Untagged(input)).blocks, self, 1, None)
        IN /\ result = plain.res
           /\ evals = plain.ev
           /\ \A k \in 1..Len(input) :
                (\A j \in 1..(k - 1) : FieldRun(j).res.ok) =>
                    FieldEvals(k) = FieldRun(k).ev

\* check() failed on the second field, which carries a group tag, after the
\* first field, also tagged, passed
C20_Witness ==
    /\ pc = "returned" /\ call = None /\ Len(input) = 2
    /\ Tags(input[1]) # {} /\ FieldRun(1).res.ok /\ FieldEvals(1) # <<>>
    /\ Tags(input[2]) # {} /\ ~FieldRun(2).res.ok
    /\ result = FieldRun(2).res
    /\ ~result.ok

(***************************************************************************)
(* Properties of check(): the messages returned.                           *)
(***************************************************************************)
\* The messages written in a schema: field-level messages and rule messages
MessagesOf(fields) ==
    UNION {{f.message[1] : x \in {1} \cap {Len(f.message)}}
           \cup {f.checks[i].msg[1] : i \in {j \in 1..Len(f.checks) : f.checks[j].msg # None}}
           : f \in {fields[k] : k \in 1..Len(fields)}}

\* The messages the user wrote: those of the schema and of the nested record
UserMessages == MessagesOf(input) \cup MessagesOf(InnerFields)

\* C17: every failure check() or check_group(g) returns carries a message
\* the user wrote in the schema of the record or of a nested record.
C17_FailMessagesAreUserWritten ==
    (pc = "returned" /\ ~result.ok) => result.err \in UserMessages

\* The failures that carry another message are those of a regex rule whose
\* pattern does not compile: the message is the one validate_regex makes
FailMessagesUserWrittenOrCompileError ==
    (pc = "returned" /\ ~result.ok) =>
        \/ result.err \in UserMessages
        \/ /\ result.err = RegexCompileError(RegexNew(InvalidPattern).err)
           /\ \E i \in 1..Len(F1.checks) :
                F1.checks[i].kind = "regex" /\ F1.checks[i].arg = Some(InvalidPattern)

(***************************************************************************)
(* Properties of schema compilation.                                       *)
(***************************************************************************)
\* The rules of a field that carry a message of their own
RulesWithMessage(f) == {i \in 1..Len(f.checks) : f.checks[i].msg # None}

RulesWithoutMessage(f) == {i \in 1..Len(f.checks) : f.checks[i].msg = None}

\* C15: a field with a field-level message and at least one rule that has a
\* message of its own is rejected at schema compilation with a compile-time
\* error (the macro answers with a diagnostic, as it does for a missing
\* message), and there is no validator for the struct.
C15_FieldAndRuleMessageRejected ==
    (Resolved /\ F1.message # None /\ RulesWithMessage(F1) # {}) =>
        pc = "rejected" /\ expansion.err # None

\* A String field with a field-level message and a not_blank rule with its
\* own message went through the macro without a compile_error!: the output
\* is the impl, with the rule's statement in the field's any-mode block
C15_MixExpandsWithoutDiagnostic ==
    /\ Resolved
    /\ F1.ty = <<"String">>
    /\ F1.message # None
    /\ Len(F1.checks) = 1 /\ F1.checks[1].kind = "not_blank" /\ F1.checks[1].msg # None
    /\ expansion.err = None
    /\ Len(expansion.blocks[1].stmts) = 1
    /\ Len(input) = 1

\* What the macro does with a field-level message: it never tests whether
\* a rule has a message of its own.  The message goes into the helper call
\* as its last argument and the any-mode arm  Err(_) => {}  discards it, so
\* the field gives no diagnostic, the calls are those of the same rules
\* without their messages, and the struct is refused by rustc with or
\* without rule messages, for the unwrap() of the any-mode block.
Unmessaged(checks) == [i \in 1..Len(checks) |-> [checks[i] EXCEPT !.msg = None]]

CallsOf(stmts) ==
    [i \in 1..Len(stmts) |-> <<stmts[i].helper, stmts[i].operand, stmts[i].rule>>]

AnyModeIgnoresRuleMessages ==
    (Resolved /\ F1.message # None) =>
        /\ GenChecks(F1.checks, TRUE, F1.ty, 1).err = None
        /\ CallsOf(GenChecks(F1.checks, TRUE, F1.ty, 1).stmts)
              = CallsOf(GenChecks(Unmessaged(F1.checks), TRUE, F1.ty, 1).stmts)
        /\ pc = "rejected"

\* C16: in ALL mode (no field-level message) a rule of any kind without a
\* message of its own makes the compilation fail with a compile-time error.
C16_MissingRuleMessageRejected ==
    (Resolved /\ F1.message = None /\ RulesWithoutMessage(F1) # {}) =>
        pc = "rejected" /\ expansion.err # None

\* The part of C16 the macro implements: a rule whose arm reaches its
\* message (every rule that emits a check, and enums whatever it emits) and
\* has none gives compile_error!, and no statement ever carries the empty
\* message in ALL mode.
MissingMessageOfEmittingRuleRejected ==
    (Resolved /\ F1.message = None) =>
        /\ (\E i \in RulesWithoutMessage(F1) : NeedsMessage(F1.checks[i])) =>
              pc = "rejected" /\ expansion.err # None /\ expansion.blocks = <<>>
        /\ expansion.err = None =>
              \A i \in 1..Len(expansion.blocks[1].stmts) :
                  expansion.blocks[1].stmts[i].msg # ""

\* The macro's output is complete: the impl with both entry points over one
\* block per field
CompleteValidator ==
    /\ expansion.err = None
    /\ Len(expansion.blocks) = Len(input)

\* The macro's output is a diagnostic and nothing else
DiagnosticOnly == expansion.err # None /\ expansion.blocks = <<>>

\* A message-declaration error: without a field-level message a rule lacks
\* its own, or with one a rule has its own
MessageDeclarationError(f) ==
    \/ f.message = None /\ RulesWithoutMessage(f) # {}
    \/ f.message # None /\ RulesWithMessage(f) # {}

\* A rule/type mismatch: a rule on strings on a field that is neither String
\* nor Option<String>, or require on a field that is not an Option
RuleTypeMismatch(f) ==
    \E i \in 1..Len(f.checks) :
        \/ /\ f.checks[i].kind \in {"no_space", "not_blank", "regex"}
           /\ f.ty \notin {<<"String">>, <<"Option", "String">>}
        \/ f.checks[i].kind = "require" /\ f.ty[1] # "Option"

FieldInError(f) == MessageDeclarationError(f) \/ RuleTypeMismatch(f)

\* C18: schema compilation gives a complete validator or a diagnostic only,
\* and whenever a field has a rule/type mismatch or a message-declaration
\* error the output is the diagnostic alone, with no validator
\* implementation, and no validator exists.
C18_ValidatorOrDiagnosticOnly ==
    Resolved =>
        /\ CompleteValidator \/ DiagnosticOnly
        /\ (\E k \in 1..Len(input) : FieldInError(input[k])) =>
              DiagnosticOnly /\ pc = "rejected"

\* What the macro does: its output is compile_error! alone or the impl with
\* every field, each block holding one statement per rule that stands for a
\* check, also when the field in error comes after fields already processed;
\* a validator exists only where the output is the impl, and a field with a
\* rule/type mismatch never has one (rustc refuses the impl).
OutputCompleteOrDiagnosticOnly ==
    Resolved =>
        /\ \/ /\ CompleteValidator
              /\ \A k \in 1..Len(input) :
                    Len(expansion.blocks[k].stmts) = Cardinality(EmittingRules(input[k]))
           \/ DiagnosticOnly
        /\ pc # "rejected" => CompleteValidator
        /\ DiagnosticOnly => pc = "rejected"
        /\ (\E k \in 1..Len(input) : RuleTypeMismatch(input[k])) => pc = "rejected"

\* The second field lacks a rule message; the first field, processed before
\* it, is in order on its own; the output is the diagnostic alone
C18_DiagnosticDropsEarlierFields ==
    /\ pc = "rejected"
    /\ Len(input) = 2
    /\ GenChecks(input[1].checks, any_mode(input[1]), input[1].ty, 1).err = None
    /\ GenChecks(input[1].checks, any_mode(input[1]), input[1].ty, 1).stmts # <<>>
    /\ RulesWithoutMessage(input[2]) # {}
    /\ DiagnosticOnly

\* A String field whose only rule is func without ident and without message:
\* a message-declaration error, and the validator is built and returns
C18_MessageErrorBuilds ==
    /\ pc \in {"built", "returned"}
    /\ Len(input) = 1
    /\ F1.ty = <<"String">> /\ F1.message = None
    /\ Len(F1.checks) = 1
    /\ F1.checks[1].kind = "func" /\ F1.checks[1].arg = None /\ F1.checks[1].msg = None
    /\ CompleteValidator

\* A field that is not a string carries a rule on strings, every message
\* in order: the macro's output is the whole impl, which rustc refuses
C18_MismatchEmitsImpl ==
    /\ pc = "rejected"
    /\ Len(input) = 1
    /\ RuleTypeMismatch(F1) /\ ~MessageDeclarationError(F1)
    /\ CompleteValidator

(***************************************************************************)
(* Properties of the rule/type compatibility check of the flat derive.     *)
(***************************************************************************)
\* The field of the struct under the flat derive
CF == cinput.fields[1]

CoreResolved == cpc \in {"built", "rejected"} /\ cinput.shape = "named"

\* The field type classifies to base category Unsupported
ClassifiesUnsupported(ty) == get_base_type(from_type(ty)) = "Unsupported"

\* C14: on a field whose type classifies to Unsupported, any rule other than
\* func is refused by the compatibility check and the compilation fails with
\* its diagnostic.
C14_UnsupportedTypeRejectsRules ==
    (CoreResolved /\ ClassifiesUnsupported(CF.field_type) /\ CF.rules \ {"func"} # {}) =>
        /\ validate_field_rules(CF) # None
        /\ cout.err # None
        /\ cout.checks = <<>>
        /\ cpc = "rejected"

\* required on Option<std::path::PathBuf>: the type is written as an Option
\* but classifies to Unsupported, and the rule is refused
C14_Witness ==
    /\ cpc = "rejected"
    /\ cinput.shape = "named"
    /\ CF.field_type = PathTy(<<"Option">>, <<PathBufTy>>)
    /\ CF.rules = {"required"}
    /\ cout.err = Some("required rule can only be applied to Option types")

\* The rules that work on the characters of a string
StringOnlyRules == {"not_blank", "no_space", "regex"}

\* The value of a field of this type is a string, possibly absent
RECURSIVE ValueIsString(_)
ValueIsString(ty) == ty = StringTy \/ (IsOptionExpr(ty) /\ ValueIsString(ty.args[1]))

\* C19: every rule the compatibility check accepts on a declared type has a
\* check that is well-typed on the values of that type: a string-only rule is
\* accepted only where the value is a string, and the checks generated for
\* the accepted rules compile.
C19_AcceptedRulesAreWellTyped ==
    (CoreResolved /\ validate_field_rules(CF) = None) =>
        /\ CF.rules \cap StringOnlyRules # {} => ValueIsString(CF.field_type)
        /\ \A i \in 1..Len(generate_field_validation_code(CF)) :
              CheckTypechecks(generate_field_validation_code(CF)[i], CF.field_type)

\* The part of C19 that holds: an accepted string-only rule is on a type whose
\* base type is String, and an accepted required is on an Option
AcceptedRulesMatchBaseType ==
    (CoreResolved /\ validate_field_rules(CF) = None) =>
        /\ CF.rules \cap StringOnlyRules # {} =>
              get_base_type(from_type(CF.field_type)) = "String"
        /\ "required" \in CF.rules => IsOptionExpr(CF.field_type)

\* The base category of a declared type: what the classifier finds under the
\* wrappers
BaseCategory(ty) == get_base_type(from_type(ty))

\* The diagnostic of the compatibility check for a string-only rule
StringRuleDiagnostic(r) ==
    CASE r = "not_blank" -> "not_blank rule can only be applied to String type"
      [] r = "no_space" -> "no_space rule can only be applied to String type"
      [] r = "regex" -> "regex rule can only be applied to String type"

\* What the compatibility check says of rule r alone on the type ty
RuleAlone(ty, r) == validate_field_rules(FieldValidation(ty, {r}, Unbounded))

\* C23: not_blank, no_space and regex are accepted by the compatibility check
\* if and only if the base category of the field is String; on every other
\* base category each of them is refused with its diagnostic, alone or next
\* to other rules.
C23_StringRulesIffBaseString ==
    CoreResolved =>
        \A r \in StringOnlyRules :
            /\ BaseCategory(CF.field_type) = "String" =>
                  RuleAlone(CF.field_type, r) = None
            /\ BaseCategory(CF.field_type) # "String" =>
                  /\ RuleAlone(CF.field_type, r) = Some(StringRuleDiagnostic(r))
                  /\ r \in CF.rules => validate_field_rules(CF) # None

\* regex on HashSet<String> is accepted (the base category is String)
C23_Witness ==
    /\ CoreResolved
    /\ CF.field_type = PathTy(<<"HashSet">>, <<StringTy>>)
    /\ CF.rules = {"regex"}
    /\ validate_field_rules(CF) = None
    /\ cout.err = None

\* no_space on an Inner record is refused with its diagnostic
C23_RejectionReached ==
    /\ cpc = "rejected"
    /\ cinput.shape = "named"
    /\ CF.field_type = PathTy(<<"Inner">>, <<>>)
    /\ CF.rules = {"no_space"}
    /\ cout.err = Some(StringRuleDiagnostic("no_space"))

(***************************************************************************)
(* Properties of the type classifier.                                      *)
(***************************************************************************)
WrapperNames == {"Option", "Vec", "HashSet", "HashMap"}

\* The type arguments the classifier looks at: the first one, and the second
\* one of a HashMap
ArgsLookedAt(ty) ==
    IF ty.kind # "path" \/ ty.segs = <<>> \/ Last(ty.segs) \notin WrapperNames THEN {}
    ELSE IF Last(ty.segs) = "HashMap" THEN {ty.args[i] : i \in 1..Len(ty.args) \cap 1..2}
    ELSE {ty.args[i] : i \in 1..Len(ty.args) \cap 1..1}

Max(S) == CHOOSE x \in S : \A y \in S : y <= x

\* The number of wrapper layers nested in a declared type
RECURSIVE Layers(_)
Layers(ty) ==
    IF ArgsLookedAt(ty) = {} THEN 0
    ELSE 1 + Max({Layers(a) : a \in ArgsLookedAt(ty)})

\* The classification by the same rules with the depth test out of reach
ClassifiedWithoutCeiling(ty) == from_type_inner(ty, 0 - (MaxNest + MaxTypeDepth + 1))

\* C24: the classifier resolves wrapper nesting up to the depth ceiling of 5.
\* A type with more than 5 nested wrapper layers classifies as Unsupported; a
\* type with at most 5 layers classifies as it would without the ceiling; and
\* a wrapper with a type argument that classifies as Unsupported makes the
\* whole type Unsupported.
C24_DepthCeiling ==
    CoreResolved =>
        LET ty == CF.field_type IN
        /\ Layers(ty) > DepthLimit => from_type(ty) = Basic("Unsupported")
        /\ Layers(ty) <= DepthLimit => from_type(ty) = ClassifiedWithoutCeiling(ty)
        /\ (\E a \in ArgsLookedAt(ty) : ClassifiesUnsupported(a)) =>
              from_type(ty) = Basic("Unsupported")

\* Six Options around String: past the ceiling, the type is Unsupported and
\* required is refused on it although it is written as an Option
C24_Witness ==
    /\ cpc = "rejected"
    /\ cinput.shape = "named"
    /\ CF.field_type = OptionNest(DepthLimit + 1)
    /\ Layers(CF.field_type) = DepthLimit + 1
    /\ from_type(CF.field_type) = Basic("Unsupported")
    /\ ClassifiedWithoutCeiling(CF.field_type) # Basic("Unsupported")
    /\ CF.rules = {"required"}
    /\ cout.err = Some("required rule can only be applied to Option types")

\* Five layers, Option four times around Vec<String>: at the ceiling, the type
\* is classified and required is accepted on it
C24_AtCeilingReached ==
    /\ CoreResolved
    /\ CF.field_type = OptionNestOver(DepthLimit - 1, PathTy(<<"Vec">>, <<StringTy>>))
    /\ Layers(CF.field_type) = DepthLimit
    /\ BaseCategory(CF.field_type) = "String"
    /\ CF.rules = {"required"}
    /\ cout.err = None

\* A HashMap whose value type is not a path: the whole type is Unsupported
C24_UnsupportedArgumentReached ==
    /\ CoreResolved
    /\ CF.field_type = PathTy(<<"HashMap">>, <<StringTy, OtherTy("tuple")>>)
    /\ from_type(CF.field_type) = Basic("Unsupported")

(***************************************************************************)
(* Properties of the compatibility check: deep.                            *)
(***************************************************************************)
\* The declared type names a user record, without a wrapper
IsCustomRecord(ty) == ArgsLookedAt(ty) = {} /\ basic_from_type(ty) = "CustomStruct"

\* The declared type is one collection wrapper
IsCollectionExpr(ty) ==
    ty.kind = "path" /\ ty.segs # <<>> /\ Last(ty.segs) \in {"Vec", "HashSet", "HashMap"}

\* One collection wrapper, Vec, HashSet or HashMap, directly around a user
\* record
IsCollectionOfRecords(ty) ==
    IsCollectionExpr(ty) /\ \E a \in ArgsLookedAt(ty) : IsCustomRecord(a)

DeepDiagnostic ==
    "deep rule can only be applied to custom struct types or collections containing custom structs"

\* C22: deep is accepted exactly when the field type is a user record or one
\* collection wrapper around a user record; a type with two or more wrapper
\* layers around a user record, and a collection of anything else, is refused.
C22_DeepOnlyOneLayer ==
    CoreResolved =>
        LET ty == CF.field_type IN
        /\ RuleAlone(ty, "deep") = None <=> (IsCustomRecord(ty) \/ IsCollectionOfRecords(ty))
        /\ Layers(ty) >= 2 => RuleAlone(ty, "deep") = Some(DeepDiagnostic)
        /\ (IsCollectionExpr(ty) /\ ~IsCollectionOfRecords(ty)) =>
              RuleAlone(ty, "deep") = Some(DeepDiagnostic)

\* What the compatibility check does: deep is accepted exactly when the base
\* type the classifier finds under the wrappers is a user record
DeepAcceptedIffBaseIsRecord ==
    CoreResolved =>
        (RuleAlone(CF.field_type, "deep") = None
            <=> BaseCategory(CF.field_type) = "CustomStruct")

\* deep on Option<Vec<Inner>>, two wrapper layers, is accepted
C22_TwoLayersAccepted ==
    /\ CoreResolved
    /\ CF.field_type = PathTy(<<"Option">>, <<PathTy(<<"Vec">>, <<InnerTy>>)>>)
    /\ Layers(CF.field_type) = 2
    /\ CF.rules = {"deep"}
    /\ cout.err = None

\* deep on HashMap<String, Inner> is refused
C22_MapOfRecordsRefused ==
    /\ cpc = "rejected"
    /\ cinput.shape = "named"
    /\ CF.field_type = PathTy(<<"HashMap">>, <<StringTy, InnerTy>>)
    /\ CF.rules = {"deep"}
    /\ cout.err = Some(DeepDiagnostic)

(***************************************************************************)
(* Properties of the compatibility check: Option.                          *)
(***************************************************************************)
\* The declared type Option<ty>
OptionOf(ty) == PathTy(<<"Option">>, <<ty>>)

\* The compatibility check accepts rule r alone on the type ty
Accepts(ty, r) == RuleAlone(ty, r) = None

\* C27: Option is transparent to the compatibility check: every rule other
\* than required is accepted on Option<T> if and only if it is accepted on T.
C27_OptionTransparent ==
    CoreResolved =>
        \A r \in RuleKinds \ {"required"} :
            Accepts(OptionOf(CF.field_type), r) <=> Accepts(CF.field_type, r)

\* The rules that ask whether the type is a collection
CollectionRules == {"not_empty", "size"}

\* What the compatibility check does: below the depth ceiling, the rules that
\* only look at the base type are accepted on Option<T> as on T, and
\* not_empty and size are accepted on Option<T> only when the base type is
\* String
OptionTransparentOnBaseTypeRules ==
    (CoreResolved /\ Layers(CF.field_type) < DepthLimit) =>
        /\ \A r \in RuleKinds \ ({"required"} \cup CollectionRules) :
              Accepts(OptionOf(CF.field_type), r) <=> Accepts(CF.field_type, r)
        /\ \A r \in CollectionRules :
              Accepts(OptionOf(CF.field_type), r)
                  <=> BaseCategory(CF.field_type) = "String"

\* not_empty is accepted on Vec<i32> and refused on Option<Vec<i32>>
C27_OptionOfSequenceRefused ==
    /\ CoreResolved
    /\ CF.field_type = PathTy(<<"Vec">>, <<PathTy(<<"i32">>, <<>>)>>)
    /\ CF.rules = {"not_empty"}
    /\ cout.err = None
    /\ RuleAlone(OptionOf(CF.field_type), "not_empty")
         = Some("not_empty rule can only be applied to String, Vec, HashSet, or HashMap types")

(***************************************************************************)
(* Properties of the registry generator: a module without entries.         *)
(***************************************************************************)
\* The module is inline and none of its items is a const
NoEntries == regmod.inline /\ \A i \in 1..Len(regmod.items) : regmod.items[i].kind # "const"

\* C26: for a module without string-constant entries the generator returns
\* the module unchanged: the module with its body, every item of the body
\* still there, and no generated item added.
C26_NoEntriesModuleUnchanged ==
    (gpc # "declared" /\ NoEntries) =>
        /\ regout.err = None
        /\ regout.body
        /\ regout.items = regmod.items
        /\ ~regout.has_patterns
        /\ regout.gen = NoGenerated

\* What the generator does: for a module without entries it emits `mod name;`
\* with no item of the body and no generated item
NoEntriesModuleLosesBody ==
    (gpc # "declared" /\ NoEntries) =>
        /\ regout.err = None
        /\ ~regout.body
        /\ regout.items = <<>>
        /\ ~regout.has_patterns
        /\ regout.gen = NoGenerated

\* mod m { fn helper() {} } has gone through the generator and its function
\* is not in the output
C26_ItemsLost ==
    /\ gpc # "declared"
    /\ regmod = InlineModule(<<FnItem("helper")>>)
    /\ regout.err = None
    /\ ~regout.body
    /\ regout.items = <<>>

(***************************************************************************)
(* Properties of the registry in use: an entry that does not compile.      *)
(***************************************************************************)
\* The literal the module declares for entry e
DeclaredLit(e) ==
    LET i == CHOOSE j \in 1..Len(PatternsModule) : PatternsModule[j].ident = e
    IN PatternsModule[i].lit

\* The entries whose declared literal is not a valid pattern, and the others
InvalidEntries == {e \in Patterns : ~RegexNew(DeclaredLit(e)).ok}

ValidEntries == Patterns \ InvalidEntries

\* An access of entry e has run the initializer, which panicked
HasFailed(e) == e \in InvalidEntries /\ compiles[e] >= 1

\* Entry e holds no matcher and no call of regex() on it has one or is about
\* to return one
NoMatcherOf(e) ==
    /\ cell[e].slot = None
    /\ cell[e].state # "complete"
    /\ \A t \in Threads :
          thr[t].target = e => thr[t].got = None /\ thr[t].pc \notin {"publish", "returned"}

\* C30: an entry with an invalid pattern stays failed.  Once an access of it
\* has panicked, it never holds a matcher and no later access of it, on any
\* thread, returns: an access that ends, ends in the panic.  The other
\* entries are not affected: an access of a valid entry never panics, and
\* every access of a valid entry returns the matcher of that entry.
C30_FailedEntryStaysFailed ==
    /\ \A e \in Patterns :
          [](HasFailed(e) => [](HasFailed(e) /\ NoMatcherOf(e)))
    /\ [](\A t \in Threads :
            thr[t].target \in ValidEntries =>
                /\ thr[t].pc # "panicked"
                /\ thr[t].pc = "returned" =>
                      /\ thr[t].got # None
                      /\ thr[t].got[1].lit = DeclaredLit(thr[t].target))
    /\ \A t \in Threads :
          (thr[t].pc = "fast" /\ thr[t].target \in ValidEntries)
              ~> (thr[t].pc = "returned" /\ thr[t].target \in ValidEntries)

\* BROKEN was compiled once and two accesses of it have panicked, the second
\* of them on the poisoned Lazy, while a third thread holds the matcher of
\* DIGITS, obtained after the failure
C30_Witness ==
    \E t1, t2, t3 \in Threads :
        /\ t1 # t2
        /\ thr[t1].target = "BROKEN" /\ thr[t1].pc = "panicked"
        /\ thr[t2].target = "BROKEN" /\ thr[t2].pc = "panicked"
        /\ compiles["BROKEN"] = 1
        /\ ~cell["BROKEN"].init
        /\ NoMatcherOf("BROKEN")
        /\ thr[t3].target = "DIGITS" /\ thr[t3].pc = "returned"
        /\ thr[t3].got = Some(Matcher("DIGITS", 1))

(***************************************************************************)
(* Properties of check(): an ANY-mode field without checks.                *)
(***************************************************************************)
\* Field 1 has a field-level message and none of its rules stands for a
\* check: it has no rule, or only rules that emit nothing
AnyModeWithoutChecks == any_mode(F1) /\ EmittingRules(F1) = {}

\* C29: an ANY-mode field with no rule, or with rules that all generate no
\* check, never passes: there is a validator and its check() fails with the
\* field-level message on every value of the field.
C29_AnyModeWithoutChecksFails ==
    (Resolved /\ AnyModeWithoutChecks /\ expansion.err = None) =>
        /\ pc # "rejected"
        /\ \A rec \in RecordsOf(input) :
              RunFields(expansion.blocks, rec, 1, None).res = Err(F1.message[1])

\* What the emitted code says and what becomes of it: the any_block of such a
\* field holds no check, so run as written it gives the field-level message
\* on every value; and rustc refuses it, so it never runs.
AnyModeWithoutChecksNeverBuilds ==
    (Resolved /\ AnyModeWithoutChecks /\ expansion.err = None) =>
        /\ expansion.blocks[1].mode = "any"
        /\ expansion.blocks[1].stmts = <<>>
        /\ \A rec \in RecordsOf(input) :
              RunFields(expansion.blocks, rec, 1, None).res = Err(F1.message[1])
        /\ pc = "rejected"

\* A struct whose one field has a field-level message and no rule was
\* expanded without a macro error and refused by rustc
C29_RejectedReached ==
    /\ pc = "rejected"
    /\ Len(input) = 1
    /\ F1.message = Some("field bad")
    /\ F1.checks = <<>>
    /\ expansion.err = None

(***************************************************************************)
(* Properties of check_group(): scoping against the unscoped check.        *)
(***************************************************************************)
\* What check() returns on the record of the last call
Unscoped == RunFields(expansion.blocks, self, 1, None).res

\* What check_group(g) returns on the record of the last call
Scoped(g) == RunFields(expansion.blocks, self, 1, Some(g)).res

\* C28: group scoping only removes checks.  On every record and for every
\* group g, if check() passes then check_group(g) passes, and if
\* check_group(g) fails then check() fails.
C28_GroupScopingOnlyRemovesChecks ==
    pc = "returned" =>
        /\ (call = None /\ result.ok) => \A g \in GroupValues : Scoped(g).ok
        /\ (call # None /\ ~result.ok) => ~Unscoped.ok

\* check_group(g) skipped the failing first field and failed on the second
\* one; check() on the same record fails too, on the first field
C28_Witness ==
    /\ pc = "returned" /\ call # None /\ Len(input) = 2
    /\ ~Selected(1, call[1])
    /\ result = Err("tail blank")
    /\ ~Unscoped.ok
    /\ Unscoped # result

\* check_group(g) passed on a record on which check() fails: the filter took
\* the failing check away
C28_ScopedPassUnscopedFail ==
    /\ pc = "returned" /\ call # None
    /\ result.ok
    /\ ~Unscoped.ok

(***************************************************************************)
(* Properties of check_group(): nested records.                            *)
(***************************************************************************)
\* C25: under check_group(g) the nested records follow the field filter.  For
\* a field holding records that runs under g, the records are validated by
\* the nested record's unscoped check (its fields tagged with other groups
\* included) once the field's own rules pass, and a nested failure is the
\* result; for a field skipped under g nothing of the field and of its
\* records is evaluated.
C25_NestedFollowsFieldFilter ==
    (pc = "returned" /\ call # None /\ HoldsRecords(F1.ty)) =>
        IF ~Selected(1, call[1]) THEN FieldEvals(1) = <<>>
        ELSE OwnRulesPass(self) =>
                LET items == NestedOf(self[1]) IN
                /\ NestedEvaluated(1) = NestedTrace(items, LastChecked(items), 1)
                /\ FailingElements(items) # {} =>
                      result = NestedCheck(items[LastChecked(items)]).res

\* C25 on the holders for which a recursion block is emitted: Option<Inner>,
\* Vec<Inner> and Option<Vec<Inner>>
NestedFollowsFieldFilterWhereEmitted ==
    (pc = "returned" /\ call # None
        /\ F1.ty \in {<<"Option", "Inner">>, <<"Vec", "Inner">>, <<"Option", "Vec", "Inner">>}) =>
        IF ~Selected(1, call[1]) THEN FieldEvals(1) = <<>>
        ELSE OwnRulesPass(self) =>
                LET items == NestedOf(self[1]) IN
                /\ NestedEvaluated(1) = NestedTrace(items, LastChecked(items), 1)
                /\ FailingElements(items) # {} =>
                      result = NestedCheck(items[LastChecked(items)]).res

\* check_group("A") on a Vec<Inner> field tagged A failed on the name of a
\* nested record, a field tagged B
C25_NestedUnscopedReached ==
    /\ pc = "returned" /\ call = Some(to_value(GroupA))
    /\ F1.ty = <<"Vec", "Inner">>
    /\ Tags(F1) = {to_value(GroupA)}
    /\ Tags(InnerFields[1]) = {to_value(GroupB)}
    /\ result = Err("name blank")
    /\ NestedEvaluated(1) # <<>>

\* check_group("B") skipped a Vec<Inner> field tagged A that holds a record
\* with a blank name, and passed
C25_SkippedFieldReached ==
    /\ pc = "returned" /\ call = Some(to_value(GroupB))
    /\ F1.ty = <<"Vec", "Inner">>
    /\ Tags(F1) = {to_value(GroupA)}
    /\ FailingElements(self[1].elems) # {}
    /\ FieldEvals(1) = <<>>
    /\ result = Ok

\* check_group("A") ran a field of type Inner tagged A, whose record has a
\* blank name, evaluated nothing of the record and passed
C25_DirectRecordNotChecked ==
    /\ pc = "returned" /\ call = Some(to_value(GroupA))
    /\ F1.ty = <<"Inner">>
    /\ Tags(F1) = {to_value(GroupA)}
    /\ FailingElements(NestedOf(self[1])) # {}
    /\ NestedEvaluated(1) = <<>>
    /\ result = Ok

(***************************************************************************)
(* Properties of concurrent calls on one record.                           *)
(***************************************************************************)
\* What the call of thread t returns when it runs alone on the shared record
Alone(t) == RunFields(expansion.blocks, self, 1, calls[t].grp).res

\* C21: a call of check() or check_group(g) leaves the record and the
\* compiled validator unchanged, and in every interleaving of calls on the
\* same record each call returns what it returns when run alone.
C21_CallsLeaveRecordAndAgree ==
    /\ [][pc = "shared" => (self' = self /\ expansion' = expansion /\ input' = input)]_vars
    /\ [](pc = "shared" =>
            \A t \in Callers :
                calls[t].pc = "returned" => calls[t].out = Some(Alone(t)))

\* Two calls on the same record were under way together and returned
\* different outcomes, each its own: check() failed on the first field,
\* tagged A, and check_group("B") skipped that field and failed on the second
C21_Witness ==
    /\ pc = "shared" /\ Len(input) = 2
    /\ \E t1, t2 \in Callers :
          /\ calls[t1].pc = "returned" /\ calls[t1].grp = None
          /\ calls[t2].pc = "returned" /\ calls[t2].grp = Some(to_value(GroupB))
          /\ calls[t1].out # None /\ ~calls[t1].out[1].ok
          /\ calls[t2].out = Some(Err("tail blank"))
          /\ calls[t1].out # calls[t2].out
          /\ calls[t1].k = 1 /\ calls[t2].k = 2

====
